---- MODULE Spec2Model ----
(***************************************************************************)
(* Dual-resolution plasma initialization of lcode2dPy                      *)
(* (plasma3d_gpu/initialization_dual.py) together with the run-state       *)
(* writer and the f(xi) and colormap diagnostics of diagnostics_3d.py and  *)
(* the time-step loop of simulation/three_dimensional.py.                  *)
(*                                                                         *)
(* SpecGrid: the grid builders; Spec, SpecReload: init_plasma, a time      *)
(* step, SaveRunState and load_plasma; SpecMatrix: the matrix builders;    *)
(* SpecDiag: the loop of step() with the xi layers and two diagnostics;    *)
(* SpecStep: step() with the objects it allocates and the calls it makes;  *)
(* SpecFXi: DiagnosticsFXi with the series of every name.                  *)
(*                                                                         *)
(* Real numbers are exact rationals <<n, d>> in lowest terms with d > 0,   *)
(* so that arithmetic identities of the code are decided by computation.   *)
(* Array indices carried inside the model (indices_prev, indices_next)     *)
(* keep the 0-based values of the code; sequences are 1-based, so element  *)
(* i of an array a is a[i + 1].                                            *)
(***************************************************************************)
EXTENDS Integers, Sequences, FiniteSets, TLC

\* ------------------------------------------------------------------ bounds

\* `steps` handed to the grid builders in SpecGrid ranges over
\* -MaxNegSteps..MaxSteps (init_plasma passes grid_steps - 2 * padding)
MaxSteps == 9
MaxNegSteps == 2
\* largest coarseness / fineness tried
MaxCoarseness == 3
MaxFineness == 3
\* step sizes are the rationals n/d with n in 1..MaxStepNum, d in 1..MaxStepDen
MaxStepNum == 2
MaxStepDen == 2
\* configurations of a run: window-width-steps in 1..MaxGridSteps,
\* reflect-padding-steps in 0..MaxReflect, plasma-padding-steps in
\* 0..MaxPadding, plasma-coarseness in -1..MaxCfgCoarseness, plasma-fineness
\* in 1..MaxCfgFineness
MaxGridSteps == 5
MaxReflect == 4
MaxPadding == 1
MaxCfgCoarseness == 2
MaxCfgFineness == 2
\* time steps applied by the push solver in a run
MaxPushes == 1
\* current_time handed to SaveRunState, in ticks
MaxTime == 3

\* ---------------------------------------------------------- program constants

ELECTRON_CHARGE == -1
ELECTRON_MASS == 1

\* ------------------------------------------------------------------- state

\* the grid builders called on their own
VARIABLES
    args,          \* the arguments (steps, step_size, coarseness, fineness)
    coarse_out,    \* outcome of make_coarse_plasma_grid(args), once called
    fine_out,      \* outcome of make_fine_plasma_grid(args), once called
    plasma_out     \* outcome of make_plasma(args), once called

\* a run: init_plasma, time steps, SaveRunState, load_plasma
VARIABLES
    config,        \* the Config handed to init_plasma and load_plasma
    pc,            \* position of the call in progress, "idle" between calls
    caller,        \* who called init_plasma: "driver" or "load_plasma"
    locals,        \* local names bound so far in the call in progress
    calls,         \* builders invoked and arrays allocated so far, in order
    init_out,      \* outcome of the driver's init_plasma(config), as returned
    run_state,     \* the (fields, particles, currents) objects the driver holds
    pushes,        \* time steps the push solver has applied to run_state
    checkpoint,    \* the plasma-state file written by SaveRunState
    beamfile,      \* whether SaveRunState wrote a beam file
    load_out       \* outcome of load_plasma(config, checkpoint)

\* the matrix builders called on their own
VARIABLES
    margs,         \* the arguments (grid_steps, grid_step_size, subtraction_trick)
    dirichlet_out, \* outcome of dirichlet_matrix(margs), once called
    mixed_out,     \* outcome of mixed_matrix(margs), once called
    neumann_out    \* outcome of neumann_matrix(margs), once called

gridVars == <<args, coarse_out, fine_out, plasma_out>>

runVars == <<config, pc, caller, locals, calls, init_out, run_state, pushes,
             checkpoint, beamfile, load_out>>

\* a Cartesian3dSimulation with its diagnostics
VARIABLES
    dconfig,       \* the Config of the simulation: time-step, xi-step
    diags,         \* the diagnostics objects of diag_list, as they are now
    sim,           \* the simulation: phase, current_time, N_steps, t_i, xi_i
    files          \* the files under ./diagnostics

\* the objects a simulation allocates and the calls it makes
VARIABLES
    heap,          \* every object allocated so far; an object is named by its index
    observed       \* the calls made to the collaborators of step(), in order

matVars == <<margs, dirichlet_out, mixed_out, neumann_out>>

diagVars == <<dconfig, diags, sim, files>>

stepVars == <<heap, observed>>

\* what the actions of one group leave alone
outsideGrid == <<runVars, matVars, diagVars, stepVars>>

outsideRun == <<gridVars, matVars, diagVars, stepVars>>

outsideMatrix == <<gridVars, runVars, diagVars, stepVars>>

outsideDiag == <<gridVars, runVars, matVars, stepVars>>

outsideStep == <<gridVars, runVars, matVars>>

vars == <<gridVars, runVars, matVars, diagVars, stepVars>>

\* ------------------------------------------------------------------ rationals

Abs(x) == IF x < 0 THEN -x ELSE x

Min(a, b) == IF a < b THEN a ELSE b

Max(a, b) == IF a > b THEN a ELSE b

\* Python's a // b on integers, b # 0 (floor of the quotient)
FloorDiv(a, b) == IF b > 0 THEN a \div b ELSE (-a) \div (-b)

RECURSIVE GCD(_, _)
GCD(a, b) == IF b = 0 THEN a ELSE GCD(b, a % b)

\* the rational n/d (d # 0) in lowest terms with a positive denominator
Rat(n, d) ==
    LET s == IF d < 0 THEN -1 ELSE 1
        g == GCD(Abs(n), Abs(d))
    IN  <<(s * n) \div g, (s * d) \div g>>

RInt(i) == <<i, 1>>

RAdd(a, b) == Rat(a[1] * b[2] + b[1] * a[2], a[2] * b[2])

RNeg(a) == <<-a[1], a[2]>>

RSub(a, b) == RAdd(a, RNeg(b))

RMul(a, b) == Rat(a[1] * b[1], a[2] * b[2])

\* a / b, b # 0
RDiv(a, b) == Rat(a[1] * b[2], a[2] * b[1])

RLess(a, b) == a[1] * b[2] < b[1] * a[2]

RZero == RInt(0)

ROne == RInt(1)

RHalf == Rat(1, 2)

\* ------------------------------------------------------------ array helpers

\* outcome of a call: a returned value or a raised exception
Ret(v) == [st |-> "ok", val |-> v]

Raise(e) == [st |-> "raise", err |-> e]

NotCalled == [st |-> "none"]

\* np.arange(n) * scale + offset * scale, i.e. (offset + arange(n)) * scale
ScaledRange(n, offset, scale) ==
    [i \in 1..(IF n > 0 THEN n ELSE 0) |-> RMul(RAdd(offset, RInt(i - 1)), scale)]

\* -a[::-1]
NegReversed(a) == [i \in 1..Len(a) |-> RNeg(a[Len(a) + 1 - i])]

\* the mirrored half with the zero kept
NegReversedKeepZero(a) == [i \in 1..Len(a) |-> RNeg(a[Len(a) + 1 - i])]

\* -a[:0:-1] : invert, reverse, drop the element of index 0
NegReversedDropFirst(a) ==
    [i \in 1..(IF Len(a) > 0 THEN Len(a) - 1 ELSE 0) |-> RNeg(a[Len(a) + 1 - i])]

\* np.array_equal(grid, -grid[::-1])
IsAntisymmetric(grid) == grid = NegReversed(grid)

\* the search with side='right': the number of elements of a not above v
searchsortedRight(a, v) == Cardinality({i \in 1..Len(a) : ~RLess(v, a[i])})

\* np.searchsorted(a, v) with the default side='left' on an ascending array:
\* the number of elements of a strictly below v
searchsorted(a, v) == Cardinality({i \in 1..Len(a) : RLess(a[i], v)})

\* np.clip(x, lo, hi) = minimum(maximum(x, lo), hi)
clip(x, lo, hi) == Min(Max(x, lo), hi)

\* ------------------------------------------------------------ GridGeometry

make_coarse_plasma_grid(steps, step_size, coarseness) ==
    IF coarseness = 0
    THEN Raise("ZeroDivisionError")
    ELSE LET plasma_step == RMul(step_size, RInt(coarseness))
             right_half == ScaledRange(FloorDiv(steps, coarseness * 2), RZero, plasma_step)
             left_half == NegReversedDropFirst(right_half)
             plasma_grid == left_half \o right_half
         IN  IF IsAntisymmetric(plasma_grid)
             THEN Ret(plasma_grid)
             ELSE Raise("AssertionError")

\* the count with the multiplication done before the floor division
FineCountMulFirst(steps, fineness) == FloorDiv(steps * fineness, 2)

\* steps // 2 * fineness, the length of right_half
FineCount(steps, fineness) == FloorDiv(steps, 2) * fineness

\* the even-fineness half of make_fine_plasma_grid without the half-step offset
FineRightHalfEvenNoOffset(n, plasma_step) == ScaledRange(n, RZero, plasma_step)

\* right_half of the even-fineness branch
FineRightHalfEven(n, plasma_step) == ScaledRange(n, RHalf, plasma_step)

make_fine_plasma_grid(steps, step_size, fineness) ==
    IF fineness = 0
    THEN Raise("ZeroDivisionError")
    ELSE LET plasma_step == RDiv(step_size, RInt(fineness))
             n == FineCount(steps, fineness)
             odd == fineness % 2 = 1
             right_half == IF odd THEN ScaledRange(n, RZero, plasma_step)
                                  ELSE FineRightHalfEven(n, plasma_step)
             left_half == IF odd THEN NegReversedDropFirst(right_half)
                                 ELSE NegReversed(right_half)
             plasma_grid == left_half \o right_half
         IN  IF IsAntisymmetric(plasma_grid)
             THEN Ret(plasma_grid)
             ELSE Raise("AssertionError")

\* ------------------------------------------------------ InterpolationWeights

\* a[idx] for an integer array idx, with numpy's wrapping of negative indices;
\* an index outside -len..len-1 raises IndexError
InRange(a, idx) == \A k \in 1..Len(idx) : -Len(a) <= idx[k] /\ idx[k] < Len(a)

take(a, idx) == [k \in 1..Len(idx) |-> a[((idx[k] + Len(a)) % Len(a)) + 1]]

\* indices_prev without the clamp
IndicesPrevUnclipped(indices, Nc) == [k \in 1..Len(indices) |-> indices[k] - 1]

\* indices_next = np.clip(indices, 0, Nc - 1)
IndicesNext(indices, Nc) == [k \in 1..Len(indices) |-> clip(indices[k], 0, Nc - 1)]

\* indices_prev = np.clip(indices - 1, 0, Nc - 1)
IndicesPrev(indices, Nc) == [k \in 1..Len(indices) |-> clip(indices[k] - 1, 0, Nc - 1)]

\* the difference left in units of length
ScaledDiffUnscaled(a, b, coarse_step) == [k \in 1..Len(a) |-> RSub(a[k], b[k])]

\* (a - b) / coarse_step, elementwise
ScaledDiff(a, b, coarse_step) ==
    [k \in 1..Len(a) |-> RDiv(RSub(a[k], b[k]), coarse_step)]

\* arr[mask] = v
MaskedSet(arr, mask, v) == [k \in 1..Len(arr) |-> IF mask[k] THEN v ELSE arr[k]]

\* the boundary fix left out
BoundaryFixMissing(influence_prev, influence_next, indices_prev, indices_next, Nc) ==
    [prev |-> influence_prev, next |-> influence_next]

\* Fix for boundary cases of missing cornering particles: four masked
\* assignments, in the order of the code
BoundaryFix(influence_prev, influence_next, indices_prev, indices_next, Nc) ==
    LET at_left == [k \in 1..Len(indices_next) |-> indices_next[k] = 0]
        at_right == [k \in 1..Len(indices_prev) |-> indices_prev[k] = Nc - 1]
        p1 == MaskedSet(influence_prev, at_left, RZero)
        n1 == MaskedSet(influence_next, at_left, ROne)
        n2 == MaskedSet(n1, at_right, RZero)
        p2 == MaskedSet(p1, at_right, ROne)
    IN  [prev |-> p2, next |-> n2]

\* a (Nc, Nc) array whose entries all equal v
Full(Nc, v) == [shape |-> <<Nc, Nc>>, fill |-> v]

\* cp.broadcast_to of the coarse grid as a column (axis "x") or a row ("y")
Broadcast(grid, axis) == [shape |-> <<Len(grid), Len(grid)>>, along |-> axis, grid |-> grid]

\* the mass array built with the charge constant
CoarseMassWrongSign(Nc, coarseness) == Full(Nc, 1 * ELECTRON_CHARGE * coarseness * coarseness)

\* coarse_m = cp.ones((Nc, Nc)) * ELECTRON_MASS * coarseness**2
CoarseMass(Nc, coarseness) == Full(Nc, 1 * ELECTRON_MASS * coarseness * coarseness)

\* coarse_q = cp.ones((Nc, Nc)) * ELECTRON_CHARGE * coarseness**2
CoarseCharge(Nc, coarseness) == Full(Nc, 1 * ELECTRON_CHARGE * coarseness * coarseness)

\* the tuple make_plasma returns, positions 1..10:
\* (coarse_x_init, coarse_y_init, coarse_x_offt, coarse_y_offt,
\*  coarse_px, coarse_py, coarse_pz, coarse_m, coarse_q, virt_params)
make_plasma(steps, cell_size, coarseness, fineness) ==
    LET coarse_step == RMul(cell_size, RInt(coarseness))
        coarse_ret == make_coarse_plasma_grid(steps, cell_size, coarseness)
    IN  IF coarse_ret.st = "raise" THEN coarse_ret ELSE
        LET coarse_grid == coarse_ret.val
            fine_ret == make_fine_plasma_grid(steps, cell_size, fineness)
        IN  IF fine_ret.st = "raise" THEN fine_ret ELSE
            LET fine_grid == fine_ret.val
                Nc == Len(coarse_grid)
                indices == [k \in 1..Len(fine_grid) |-> searchsorted(coarse_grid, fine_grid[k])]
                indices_next == IndicesNext(indices, Nc)
                indices_prev == IndicesPrev(indices, Nc)
            IN  IF ~InRange(coarse_grid, indices_next) \/ ~InRange(coarse_grid, indices_prev)
                THEN Raise("IndexError")
                ELSE
                LET influence_prev == ScaledDiff(take(coarse_grid, indices_next), fine_grid, coarse_step)
                    influence_next == ScaledDiff(fine_grid, take(coarse_grid, indices_prev), coarse_step)
                    fixed == BoundaryFix(influence_prev, influence_next, indices_prev, indices_next, Nc)
                    virt_params == [influence_prev |-> fixed.prev, influence_next |-> fixed.next,
                                    indices_prev |-> indices_prev, indices_next |-> indices_next,
                                    fine_grid |-> fine_grid]
                IN  Ret(<<Broadcast(coarse_grid, "x"), Broadcast(coarse_grid, "y"),
                          Full(Nc, 0), Full(Nc, 0),
                          Full(Nc, 0), Full(Nc, 0), Full(Nc, 0),
                          CoarseMass(Nc, coarseness), CoarseCharge(Nc, coarseness),
                          virt_params>>)

\* ------------------------------------------------- the grid builders, called


StepSizes == {Rat(n, d) : n \in 1..MaxStepNum, d \in 1..MaxStepDen}

\* no run in progress and nothing produced yet
NoRun ==
    /\ pc = "idle"
    /\ caller = "none"
    /\ locals = <<>>
    /\ calls = <<>>
    /\ init_out = NotCalled
    /\ run_state = NotCalled
    /\ pushes = 0
    /\ checkpoint = NotCalled
    /\ beamfile = FALSE
    /\ load_out = NotCalled

\* the grid builders not called
NoGrid ==
    /\ args = <<>>
    /\ coarse_out = NotCalled
    /\ fine_out = NotCalled
    /\ plasma_out = NotCalled

\* the matrix builders not called
NoMatrix ==
    /\ margs = <<>>
    /\ dirichlet_out = NotCalled
    /\ mixed_out = NotCalled
    /\ neumann_out = NotCalled

\* no simulation object
NoDiag ==
    /\ dconfig = <<>>
    /\ diags = <<>>
    /\ sim = <<>>
    /\ files = {}
    /\ heap = <<>>
    /\ observed = <<>>

GridInit ==
    /\ args \in [steps : (-MaxNegSteps)..MaxSteps, step_size : StepSizes,
                 coarseness : 1..MaxCoarseness, fineness : 1..MaxFineness]
    /\ coarse_out = NotCalled
    /\ fine_out = NotCalled
    /\ plasma_out = NotCalled
    /\ config = <<>>
    /\ NoRun
    /\ NoMatrix
    /\ NoDiag

CallMakeCoarse ==
    /\ coarse_out = NotCalled
    /\ coarse_out' = make_coarse_plasma_grid(args.steps, args.step_size, args.coarseness)
    /\ UNCHANGED <<args, fine_out, plasma_out>>
    /\ UNCHANGED outsideGrid

CallMakeFine ==
    /\ fine_out = NotCalled
    /\ fine_out' = make_fine_plasma_grid(args.steps, args.step_size, args.fineness)
    /\ UNCHANGED <<args, coarse_out, plasma_out>>
    /\ UNCHANGED outsideGrid

CallMakePlasma ==
    /\ plasma_out = NotCalled
    /\ plasma_out' = make_plasma(args.steps, args.step_size, args.coarseness, args.fineness)
    /\ UNCHANGED <<args, coarse_out, fine_out>>
    /\ UNCHANGED outsideGrid

GridNext == CallMakeCoarse \/ CallMakeFine \/ CallMakePlasma

SpecGrid == GridInit /\ [][GridNext]_vars

\* ------------------------------------------------ properties of the builders

IsAscending(grid) == \A i \in 1..(Len(grid) - 1) : RLess(grid[i], grid[i + 1])

Pointwise(grid) == \A i \in 1..Len(grid) : grid[i] = RNeg(grid[Len(grid) + 1 - i])

Zeros(grid) == {i \in 1..Len(grid) : grid[i] = RZero}

UniformSpacing(grid, h) == \A i \in 1..(Len(grid) - 1) : RSub(grid[i + 1], grid[i]) = h

\* p = (k + 1/2) * step_size for some integer k
OnCellEdge(p, step_size) == RSub(RDiv(p, step_size), RHalf)[2] = 1

PlasmaBuilt == plasma_out.st = "ok"

VirtParams == plasma_out.val[10]

PlasmaNc == plasma_out.val[1].shape[1]

PlasmaCoarseGrid == plasma_out.val[1].grid

NFine == Len(VirtParams.fine_grid)

\* C4: in every interpolation table make_plasma returns, each fine index k has
\* 0 <= indices_prev[k] <= indices_next[k] <= Nc - 1 and
\* influence_prev[k] + influence_next[k] = 1 (exact arithmetic).
C4_IndicesAndWeights ==
    PlasmaBuilt =>
        \A k \in 1..NFine :
            /\ 0 <= VirtParams.indices_prev[k]
            /\ VirtParams.indices_prev[k] <= VirtParams.indices_next[k]
            /\ VirtParams.indices_next[k] <= PlasmaNc - 1
            /\ RAdd(VirtParams.influence_prev[k], VirtParams.influence_next[k]) = ROne

\* a table with a clamped point on each side and a point strictly inside a
\* coarse cell, whose two weights are both proper fractions
C4_Witness ==
    /\ PlasmaBuilt
    /\ PlasmaNc >= 3
    /\ VirtParams.indices_next[1] = 0
    /\ VirtParams.indices_prev[NFine] = PlasmaNc - 1
    /\ \E k \in 1..NFine :
           /\ VirtParams.indices_prev[k] + 1 = VirtParams.indices_next[k]
           /\ RLess(RZero, VirtParams.influence_prev[k])
           /\ RLess(RZero, VirtParams.influence_next[k])

LeftClamped(k) ==
    VirtParams.influence_prev[k] = RZero /\ VirtParams.influence_next[k] = ROne

RightClamped(k) ==
    VirtParams.influence_prev[k] = ROne /\ VirtParams.influence_next[k] = RZero

\* C5 as stated: in every table with a fine point, the leftmost fine point has
\* influence_prev = 0, influence_next = 1 and the rightmost has
\* influence_prev = 1, influence_next = 0.
C5_AsStated ==
    (PlasmaBuilt /\ NFine > 0) => (LeftClamped(1) /\ RightClamped(NFine))

\* C5 amended: with at least two coarse points the leftmost fine point has
\* weights (prev, next) = (0, 1); the rightmost has (1, 0) when it lies strictly
\* right of the last coarse point, and (0, 1) when it coincides with it, which
\* happens only for coarseness = fineness = 1; with a single coarse point every
\* fine point has (1, 0).
C5_BoundaryClamping ==
    (PlasmaBuilt /\ NFine > 0) =>
        /\ PlasmaNc >= 1
        /\ PlasmaNc = 1 => \A k \in 1..NFine : RightClamped(k)
        /\ PlasmaNc >= 2 =>
            /\ LeftClamped(1)
            /\ RLess(PlasmaCoarseGrid[PlasmaNc], VirtParams.fine_grid[NFine])
                   => RightClamped(NFine)
            /\ ~RLess(PlasmaCoarseGrid[PlasmaNc], VirtParams.fine_grid[NFine])
                   => /\ VirtParams.fine_grid[NFine] = PlasmaCoarseGrid[PlasmaNc]
                      /\ args.coarseness = 1 /\ args.fineness = 1
                      /\ LeftClamped(NFine)

\* both ends clamped by the fix: the outermost fine points lie strictly
\* outside the coarse grid
C5_Witness ==
    /\ PlasmaBuilt
    /\ PlasmaNc >= 2
    /\ RLess(VirtParams.fine_grid[1], PlasmaCoarseGrid[1])
    /\ RLess(PlasmaCoarseGrid[PlasmaNc], VirtParams.fine_grid[NFine])
    /\ LeftClamped(1)
    /\ RightClamped(NFine)

\* C6 as stated, for a positive number of steps: every grid
\* make_coarse_plasma_grid returns is strictly ascending, antisymmetric and
\* contains exactly one zero.
C6_AsStated ==
    (coarse_out.st = "ok" /\ args.steps >= 1) =>
        /\ IsAscending(coarse_out.val)
        /\ Pointwise(coarse_out.val)
        /\ Cardinality(Zeros(coarse_out.val)) = 1

\* C6 amended: the returned grid is strictly ascending and antisymmetric; it
\* contains exactly one zero when steps >= 2 * coarseness, and is empty (no
\* zero at all) when steps < 2 * coarseness.
C6_CoarseGridShape ==
    coarse_out.st = "ok" =>
        /\ IsAscending(coarse_out.val)
        /\ Pointwise(coarse_out.val)
        /\ args.steps >= 2 * args.coarseness => Cardinality(Zeros(coarse_out.val)) = 1
        /\ args.steps < 2 * args.coarseness => coarse_out.val = <<>>

\* a coarse grid with points on both sides of its zero
C6_Witness ==
    /\ coarse_out.st = "ok"
    /\ Len(coarse_out.val) >= 5
    /\ Cardinality(Zeros(coarse_out.val)) = 1

FineParityCases ==
    /\ IsAscending(fine_out.val)
    /\ Pointwise(fine_out.val)
    /\ UniformSpacing(fine_out.val, RDiv(args.step_size, RInt(args.fineness)))
    /\ args.fineness % 2 = 1 =>
        /\ Cardinality(Zeros(fine_out.val)) = 1
        /\ Len(fine_out.val) = 2 * (args.steps \div 2) * args.fineness - 1
    /\ args.fineness % 2 = 0 =>
        /\ Zeros(fine_out.val) = {}
        /\ Len(fine_out.val) = 2 * (args.steps \div 2) * args.fineness
        /\ \E i \in 1..Len(fine_out.val) :
              /\ fine_out.val[i] = RMul(RHalf, RDiv(args.step_size, RInt(args.fineness)))
              /\ \A j \in 1..Len(fine_out.val) :
                    RLess(RZero, fine_out.val[j]) => ~RLess(fine_out.val[j], fine_out.val[i])

\* C7 as stated, for a positive number of steps: the parity cases of
\* make_fine_plasma_grid hold of every grid it returns.
C7_AsStated == (fine_out.st = "ok" /\ args.steps >= 1) => FineParityCases

\* C7 amended: the parity cases (one zero and 2*(steps//2)*fineness - 1 points
\* for odd fineness; no zero, smallest positive point 0.5*step_size/fineness
\* and 2*(steps//2)*fineness points for even fineness; ascending, uniformly
\* spaced, antisymmetric) hold for steps >= 2; for steps < 2 the grid is empty.
C7_FineGridParity ==
    fine_out.st = "ok" =>
        /\ args.steps >= 2 => FineParityCases
        /\ args.steps < 2 => fine_out.val = <<>>

\* an even-fineness grid with several points on each side of the axis
C7_Witness ==
    /\ fine_out.st = "ok"
    /\ args.steps >= 4
    /\ args.fineness = 2
    /\ Len(fine_out.val) = 2 * (args.steps \div 2) * args.fineness
    /\ Zeros(fine_out.val) = {}

\* C8: no point of a grid make_fine_plasma_grid returns lies on a cell edge
\* (k + 1/2) * step_size, k an integer.
C8_NoFinePointOnCellEdge ==
    fine_out.st = "ok" =>
        \A i \in 1..Len(fine_out.val) : ~OnCellEdge(fine_out.val[i], args.step_size)

\* an even-fineness grid holding the two points next to a cell edge: a quarter
\* step on either side of step_size / 2
C8_Witness ==
    /\ fine_out.st = "ok"
    /\ args.fineness = 2
    /\ \E i \in 1..(Len(fine_out.val) - 1) :
          /\ fine_out.val[i] = RMul(Rat(1, 4), args.step_size)
          /\ fine_out.val[i + 1] = RMul(Rat(3, 4), args.step_size)

\* ------------------------------------------------- SpectralOperatorFactory

\* len(np.arange(a, b)) for b - a = n
NonNeg(n) == IF n > 0 THEN n ELSE 0

\* np.arange(a, b)
arange(a, b) == [i \in 1..NonNeg(b - a) |-> a + i - 1]

\* Floating-point results that are not numbers are the extended rationals
\* n/0: 1/0 is +inf and 0/0 is nan. Division by zero on arrays gives them
\* without raising.
Inf == <<1, 0>>

NaN == <<0, 0>>

IsFinite(x) == x[2] # 0

\* np.sin is evaluated in fixed point with FixedOne units per 1, a narrow
\* stand-in for float64: arguments lie in 0..pi/2, where the odd Taylor
\* polynomial of degree 9 is within one unit of the sine
FixedOne == 10000

\* np.pi
FixedPi == 31416

FixedMul(a, b) == (a * b) \div FixedOne

\* np.sin(x) for a fixed-point x in 0..pi/2
FixedSin(x) ==
    LET x2 == FixedMul(x, x)
        t3 == FixedMul(x, x2) \div 6
        t5 == FixedMul(t3, x2) \div 20
        t7 == FixedMul(t5, x2) \div 42
        t9 == FixedMul(t7, x2) \div 72
    IN  x - t3 + t5 - t7 + t9

\* np.sin(k * np.pi / (2 * (grid_steps - 1)))**2, a number in 0..1; with
\* grid_steps = 1 the quotient is 0/0 or k/0 and its sine is nan
SinSquared(k, grid_steps) ==
    IF grid_steps = 1 THEN NaN
    ELSE LET s == FixedSin((k * FixedPi) \div (2 * (grid_steps - 1)))
         IN  Rat(FixedMul(s, s), FixedOne)

\* a * b and a + b on floats, nan absorbing
FloatMul(a, b) == IF a = NaN \/ b = NaN THEN NaN ELSE RMul(a, b)

FloatAdd(a, b) == IF a = NaN \/ b = NaN THEN NaN ELSE RAdd(a, b)

\* 1 / x elementwise: 1/0 = inf
FloatRecip(x) ==
    IF x = NaN THEN NaN
    ELSE IF x = Inf THEN RZero
    ELSE IF x = RZero THEN Inf
    ELSE RDiv(ROne, x)

\* x / c for a non-negative x and an integer c >= 0
FloatDivInt(x, c) ==
    IF x = NaN THEN NaN
    ELSE IF c = 0 THEN (IF x = RZero THEN NaN ELSE Inf)
    ELSE IF x = Inf THEN Inf
    ELSE RDiv(x, RInt(c))

\* lam = 4 / grid_step_size**2 * np.sin(k * np.pi / (2 * (grid_steps - 1)))**2
Eigenvalues(k, grid_steps, grid_step_size) ==
    [i \in 1..Len(k) |->
        FloatMul(RDiv(RInt(4), RMul(grid_step_size, grid_step_size)),
                 SinSquared(k[i], grid_steps))]

\* the reciprocal taken of twice the row eigenvalue
OuterReciprocalRowOnly(lambda_i, lambda_j, shift) ==
    [i \in 1..Len(lambda_i) |-> [j \in 1..Len(lambda_j) |->
        FloatRecip(FloatAdd(FloatAdd(lambda_i[i], lambda_i[i]), RInt(shift)))]]

\* mul = 1 / (lambda_i + lambda_j + shift) with lambda_i a column and lambda_j
\* a row
OuterReciprocal(lambda_i, lambda_j, shift) ==
    [i \in 1..Len(lambda_i) |-> [j \in 1..Len(lambda_j) |->
        FloatRecip(FloatAdd(FloatAdd(lambda_i[i], lambda_j[j]), RInt(shift)))]]

\* the zero mode left as the division produced it
ZeroModeKept(mul) == mul

\* mul[0, 0] = 0
ZeroModeOverride(mul) ==
    [i \in DOMAIN mul |-> [j \in DOMAIN mul[i] |->
        IF i = 1 /\ j = 1 THEN RZero ELSE mul[i][j]]]

\* mul / (2 * (grid_steps - 1))**2
Normalize(mul, grid_steps) ==
    [i \in DOMAIN mul |-> [j \in DOMAIN mul[i] |->
        FloatDivInt(mul[i][j], (2 * (grid_steps - 1)) * (2 * (grid_steps - 1)))]]

\* the Dirichlet modes with the zero mode included
DirichletModesFromZero(grid_steps) == arange(0, grid_steps - 1)

\* k = np.arange(1, grid_steps - 1)
DirichletModes(grid_steps) == arange(1, grid_steps - 1)

\* The matrices carry the boundary class, the arguments, the shape given by
\* the ranges of k and the entries: entry [i, j] of the code is
\* entries[i + 1][j + 1]. grid_steps >= 1.
dirichlet_matrix(grid_steps, grid_step_size) ==
    [kind |-> "dirichlet", grid_steps |-> grid_steps, grid_step_size |-> grid_step_size,
     shape |-> <<NonNeg(grid_steps - 2), NonNeg(grid_steps - 2)>>,
     entries |-> Normalize(
        OuterReciprocal(Eigenvalues(DirichletModes(grid_steps), grid_steps, grid_step_size),
                        Eigenvalues(DirichletModes(grid_steps), grid_steps, grid_step_size),
                        0),
        grid_steps)]

mixed_matrix(grid_steps, grid_step_size, subtraction_trick) ==
    [kind |-> "mixed", grid_steps |-> grid_steps, grid_step_size |-> grid_step_size,
     shift |-> IF subtraction_trick # 0 THEN 1 ELSE 0,
     shape |-> <<NonNeg(grid_steps - 2), NonNeg(grid_steps)>>,
     entries |-> Normalize(
        OuterReciprocal(Eigenvalues(arange(1, grid_steps - 1), grid_steps, grid_step_size),
                        Eigenvalues(arange(0, grid_steps), grid_steps, grid_step_size),
                        IF subtraction_trick # 0 THEN 1 ELSE 0),
        grid_steps)]

neumann_matrix(grid_steps, grid_step_size) ==
    [kind |-> "neumann", grid_steps |-> grid_steps, grid_step_size |-> grid_step_size,
     shape |-> <<NonNeg(grid_steps), NonNeg(grid_steps)>>,
     entries |-> Normalize(
        ZeroModeOverride(
            OuterReciprocal(Eigenvalues(arange(0, grid_steps), grid_steps, grid_step_size),
                            Eigenvalues(arange(0, grid_steps), grid_steps, grid_step_size),
                            0)),
        grid_steps)]

\* --------------------------------------------- the matrix builders, called

MaxMatrixSteps == 7

MatrixInit ==
    /\ margs \in [grid_steps : 1..MaxMatrixSteps, grid_step_size : StepSizes,
                  subtraction_trick : BOOLEAN]
    /\ dirichlet_out = NotCalled
    /\ mixed_out = NotCalled
    /\ neumann_out = NotCalled
    /\ config = <<>>
    /\ NoRun
    /\ NoGrid
    /\ NoDiag

CallDirichletMatrix ==
    /\ dirichlet_out = NotCalled
    /\ dirichlet_out' = Ret(dirichlet_matrix(margs.grid_steps, margs.grid_step_size))
    /\ UNCHANGED <<margs, mixed_out, neumann_out>>
    /\ UNCHANGED outsideMatrix

CallMixedMatrix ==
    /\ mixed_out = NotCalled
    /\ mixed_out' = Ret(mixed_matrix(margs.grid_steps, margs.grid_step_size,
                                     IF margs.subtraction_trick THEN 1 ELSE 0))
    /\ UNCHANGED <<margs, dirichlet_out, neumann_out>>
    /\ UNCHANGED outsideMatrix

CallNeumannMatrix ==
    /\ neumann_out = NotCalled
    /\ neumann_out' = Ret(neumann_matrix(margs.grid_steps, margs.grid_step_size))
    /\ UNCHANGED <<margs, dirichlet_out, mixed_out>>
    /\ UNCHANGED outsideMatrix

MatrixNext == CallDirichletMatrix \/ CallMixedMatrix \/ CallNeumannMatrix

SpecMatrix == MatrixInit /\ [][MatrixNext]_vars

\* ------------------------------------------------ properties of the matrices

\* the arguments are in the documented domain of the builders
\* (grid_step_size > 0 always holds of StepSizes)
OddGrid == margs.grid_steps >= 3 /\ margs.grid_steps % 2 = 1

\* C15: for grid_steps >= 3, entry [0, 0] of the matrix neumann_matrix
\* returns is exactly 0, and the call returns (the singular pair raises
\* nothing).
C15_NeumannZeroMode ==
    (neumann_out # NotCalled /\ margs.grid_steps >= 3) =>
        /\ neumann_out.st = "ok"
        /\ neumann_out.val.entries[1][1] = RZero

\* a Neumann matrix with a finite non-zero entry next to the overridden one
C15_Witness ==
    /\ neumann_out.st = "ok"
    /\ margs.grid_steps >= 4
    /\ neumann_out.val.entries[1][1] = RZero
    /\ IsFinite(neumann_out.val.entries[1][2])
    /\ neumann_out.val.entries[1][2] # RZero

AllFinite(m) == \A i \in DOMAIN m.entries : \A j \in DOMAIN m.entries[i] : IsFinite(m.entries[i][j])

\* C16: for grid_steps odd and at least 3, every entry of the Dirichlet, the
\* mixed (with and without the subtraction trick) and the Neumann matrix is
\* finite.
C16_EntriesFinite ==
    OddGrid =>
        /\ dirichlet_out.st = "ok" => AllFinite(dirichlet_out.val)
        /\ mixed_out.st = "ok" => AllFinite(mixed_out.val)
        /\ neumann_out.st = "ok" => AllFinite(neumann_out.val)

\* the three matrices of a 5-step grid, the mixed one without the trick, so
\* that its zero column mode meets only non-zero row modes
C16_Witness ==
    /\ OddGrid
    /\ margs.grid_steps >= 5
    /\ ~margs.subtraction_trick
    /\ dirichlet_out.st = "ok" /\ AllFinite(dirichlet_out.val)
    /\ mixed_out.st = "ok" /\ AllFinite(mixed_out.val)
    /\ neumann_out.st = "ok" /\ AllFinite(neumann_out.val)
    /\ mixed_out.val.entries[1][1] # RZero

IsSymmetric(m) ==
    /\ m.shape[1] = m.shape[2]
    /\ \A i \in DOMAIN m.entries : \A j \in DOMAIN m.entries[i] :
           m.entries[i][j] = m.entries[j][i]

\* C17: the matrices dirichlet_matrix and neumann_matrix return are
\* symmetric, M[i, j] = M[j, i] for all i, j, the Neumann one after its
\* [0, 0] override.
C17_Symmetric ==
    /\ dirichlet_out.st = "ok" => IsSymmetric(dirichlet_out.val)
    /\ neumann_out.st = "ok" => IsSymmetric(neumann_out.val)

\* symmetric matrices whose rows differ from one another
C17_Witness ==
    /\ dirichlet_out.st = "ok" /\ IsSymmetric(dirichlet_out.val)
    /\ neumann_out.st = "ok" /\ IsSymmetric(neumann_out.val)
    /\ dirichlet_out.val.shape[1] >= 3
    /\ dirichlet_out.val.entries[1][2] # dirichlet_out.val.entries[2][2]
    /\ neumann_out.val.entries[1][2] # neumann_out.val.entries[2][3]

\* ---------------------------------------------------- PlasmaStateInitializer

\* the grid is checked without the parity test
CenteredGridUnchecked(grid_steps) == TRUE

\* assert grid_steps % 2 == 1
CenteredGrid(grid_steps) == grid_steps % 2 = 1

\* the padding compared with the coarseness alone
VirtualParticlesInsideOffByOne(reflect_padding_steps, plasma_coarseness) ==
    reflect_padding_steps > plasma_coarseness

\* assert reflect_padding_steps > plasma_coarseness + 1
VirtualParticlesInside(reflect_padding_steps, plasma_coarseness) ==
    reflect_padding_steps > plasma_coarseness + 1

\* if reflect_padding_steps <= 2: raise Exception(...)
ReflectTooLow(reflect_padding_steps) == reflect_padding_steps <= 2

\* the particle window taken to be the whole grid
PlasmaWindowStepsFullGrid(grid_steps, plasma_padding_steps) == grid_steps

\* grid_steps - plasma_padding_steps * 2, the first argument of make_plasma
PlasmaWindowSteps(grid_steps, plasma_padding_steps) == grid_steps - plasma_padding_steps * 2

\* x_init, y_init, x_offt, y_offt, px, py, pz, q, m, virt_params = make_plasma(...)
UnpackMakePlasma(r) ==
    [x_init |-> r[1], y_init |-> r[2], x_offt |-> r[3], y_offt |-> r[4],
     px |-> r[5], py |-> r[6], pz |-> r[7], q |-> r[8], m |-> r[9],
     virt_params |-> r[10]]

\* The deposition collaborator (weights_dual.initial_deposition): an opaque
\* function of its arguments that returns a charge-density array.
initial_deposition(grid_steps, grid_step_size, plasma_coarseness, plasma_fineness, x_offt, y_offt, px, py, pz, m, q, virt_params) ==
    [deposited |-> <<grid_steps, grid_step_size, plasma_coarseness, plasma_fineness>>,
     offsets |-> <<x_offt, y_offt>>, momenta |-> <<px, py, pz>>,
     ninth |-> m, tenth |-> q, table |-> virt_params]

\* cp.zeros((grid_steps, grid_steps), dtype=cp.float64)
zeros(grid_steps) == Full(grid_steps, 0)

FieldNames == {"Ex", "Ey", "Ez", "Bx", "By", "Bz", "Phi"}

CurrentNames == {"ro", "jx", "jy", "jz"}

OffsetNames == {"x_offt", "y_offt", "px", "py", "pz"}

\* fields, particles, currents, const_arrays as init_plasma bundles them
InitBundle(l, grid_steps) ==
    [fields |-> [n \in FieldNames |-> zeros(grid_steps)],
     particles |-> [x_init |-> l.x_init, y_init |-> l.y_init,
                    x_offt |-> l.x_offt, y_offt |-> l.y_offt,
                    px |-> l.px, py |-> l.py, pz |-> l.pz, q |-> l.q, m |-> l.m],
     currents |-> [n \in CurrentNames |-> zeros(grid_steps)],
     const_arrays |-> [ro_initial |-> l.ro_initial, dirichlet_matrix |-> l.dir_matrix,
                       field_mixed_matrix |-> l.mix_matrix, neumann_matrix |-> l.neu_matrix,
                       influence_prev |-> l.virt_params.influence_prev,
                       influence_next |-> l.virt_params.influence_next,
                       indices_prev |-> l.virt_params.indices_prev,
                       indices_next |-> l.virt_params.indices_next,
                       fine_grid |-> l.virt_params.fine_grid]]

Configs ==
    [grid_steps : 1..MaxGridSteps, grid_step_size : {ROne},
     reflect_padding_steps : 0..MaxReflect, plasma_padding_steps : 0..MaxPadding,
     plasma_coarseness : (-1)..MaxCfgCoarseness, plasma_fineness : 1..MaxCfgFineness,
     solver_trick : {0, 1}, time_step : {2}]

Init ==
    /\ config \in Configs
    /\ NoRun
    /\ NoGrid
    /\ NoMatrix
    /\ NoDiag

Called(fn, size) == [fn |-> fn, size |-> size]

\* an exception leaves init_plasma; inside load_plasma nothing catches it, so
\* it leaves load_plasma as well
Propagate(e) ==
    /\ pc' = "idle"
    /\ caller' = "none"
    /\ locals' = <<>>
    /\ IF caller = "driver"
       THEN init_out' = Raise(e) /\ UNCHANGED load_out
       ELSE load_out' = Raise(e) /\ UNCHANGED init_out

\* the driver calls init_plasma(config)
Driver_init_plasma ==
    /\ pc = "idle"
    /\ init_out = NotCalled
    /\ pc' = "assert_centered"
    /\ caller' = "driver"
    /\ UNCHANGED <<config, locals, calls, init_out, run_state, pushes, checkpoint,
                   beamfile, load_out>>
    /\ UNCHANGED outsideRun

init_AssertCentered ==
    /\ pc = "assert_centered"
    /\ IF CenteredGrid(config.grid_steps)
       THEN pc' = "assert_virtual" /\ UNCHANGED <<caller, locals, init_out, load_out>>
       ELSE Propagate("AssertionError")
    /\ UNCHANGED <<config, calls, run_state, pushes, checkpoint, beamfile>>
    /\ UNCHANGED outsideRun

init_AssertVirtual ==
    /\ pc = "assert_virtual"
    /\ IF VirtualParticlesInside(config.reflect_padding_steps, config.plasma_coarseness)
       THEN pc' = "check_reflect" /\ UNCHANGED <<caller, locals, init_out, load_out>>
       ELSE Propagate("AssertionError")
    /\ UNCHANGED <<config, calls, run_state, pushes, checkpoint, beamfile>>
    /\ UNCHANGED outsideRun

init_CheckReflect ==
    /\ pc = "check_reflect"
    /\ IF ReflectTooLow(config.reflect_padding_steps)
       THEN Propagate("Exception")
       ELSE pc' = "make_plasma" /\ UNCHANGED <<caller, locals, init_out, load_out>>
    /\ UNCHANGED <<config, calls, run_state, pushes, checkpoint, beamfile>>
    /\ UNCHANGED outsideRun

\* make_plasma has returned or raised `ret` for the window of `steps` steps
init_MakePlasmaDone(steps, ret) ==
    /\ calls' = Append(calls, Called("make_plasma", steps))
    /\ IF ret.st = "raise"
       THEN Propagate(ret.err)
       ELSE /\ pc' = "initial_deposition"
            /\ locals' = UnpackMakePlasma(ret.val)
            /\ UNCHANGED <<caller, init_out, load_out>>

init_MakePlasma ==
    /\ pc = "make_plasma"
    /\ init_MakePlasmaDone(
           PlasmaWindowSteps(config.grid_steps, config.plasma_padding_steps),
           make_plasma(PlasmaWindowSteps(config.grid_steps, config.plasma_padding_steps),
                       config.grid_step_size, config.plasma_coarseness,
                       config.plasma_fineness))
    /\ UNCHANGED <<config, run_state, pushes, checkpoint, beamfile>>
    /\ UNCHANGED outsideRun

init_InitialDeposition ==
    /\ pc = "initial_deposition"
    /\ calls' = Append(calls, Called("initial_deposition", config.grid_steps))
    /\ locals' = locals @@
          [ro_initial |-> initial_deposition(
               config.grid_steps, config.grid_step_size,
               config.plasma_coarseness, config.plasma_fineness,
               locals.x_offt, locals.y_offt, locals.px, locals.py, locals.pz,
               locals.m, locals.q, locals.virt_params)]
    /\ pc' = "matrices"
    /\ UNCHANGED <<config, caller, init_out, run_state, pushes, checkpoint, beamfile, load_out>>
    /\ UNCHANGED outsideRun

init_Matrices ==
    /\ pc = "matrices"
    /\ calls' = calls \o <<Called("dirichlet_matrix", config.grid_steps),
                           Called("mixed_matrix", config.grid_steps),
                           Called("neumann_matrix", config.grid_steps)>>
    /\ locals' = locals @@
          [dir_matrix |-> dirichlet_matrix(config.grid_steps, config.grid_step_size),
           mix_matrix |-> mixed_matrix(config.grid_steps, config.grid_step_size,
                                       config.solver_trick),
           neu_matrix |-> neumann_matrix(config.grid_steps, config.grid_step_size)]
    /\ pc' = "bundle"
    /\ UNCHANGED <<config, caller, init_out, run_state, pushes, checkpoint, beamfile, load_out>>
    /\ UNCHANGED outsideRun

\* the zero arrays are allocated, the four bundles built and returned: to the
\* driver, which keeps the mutable ones, or to load_plasma, which keeps only
\* const_arrays (`_, _, _, const_arrays = init_plasma(config)`)
init_BundleAndReturn ==
    /\ pc = "bundle"
    /\ calls' = calls \o [i \in 1..(Cardinality(FieldNames) + Cardinality(CurrentNames))
                            |-> Called("zeros", config.grid_steps)]
    /\ LET bundle == InitBundle(locals, config.grid_steps)
       IN  IF caller = "driver"
           THEN /\ init_out' = Ret(bundle)
                /\ run_state' = Ret([fields |-> bundle.fields,
                                     particles |-> bundle.particles,
                                     currents |-> bundle.currents])
                /\ pc' = "idle"
                /\ caller' = "none"
                /\ locals' = <<>>
           ELSE /\ locals' = [const_arrays |-> bundle.const_arrays]
                /\ pc' = "load_state"
                /\ UNCHANGED <<caller, init_out, run_state>>
    /\ UNCHANGED <<config, pushes, checkpoint, beamfile, load_out>>
    /\ UNCHANGED outsideRun

\* ----------------------------------------------------------- the time step

\* the sixteen arrays a time step rewrites, in the order SaveRunState names them
MutableNames ==
    <<"x_offt", "y_offt", "px", "py", "pz", "Ex", "Ey", "Ez", "Bx", "By", "Bz",
      "Phi", "ro", "jx", "jy", "jz">>

NameIndex(name) == CHOOSE i \in 1..Len(MutableNames) : MutableNames[i] = name

\* contents of array `name` after the k-th time step: the pusher and field
\* solver are outside this module, so the contents are a tag that differs
\* between arrays and between time steps
Pushed(arr, name, k) == [arr EXCEPT !.fill = 100 * k + NameIndex(name)]

\* push_solver.step_dt(pl_fields, pl_particles, pl_currents, ...) rewrites the
\* mutable arrays in place
PushSolver_step_dt ==
    /\ pc = "idle"
    /\ run_state.st = "ok"
    /\ pushes < MaxPushes
    /\ pushes' = pushes + 1
    /\ LET st == run_state.val
           k == pushes + 1
       IN  run_state' = Ret(
             [fields |-> [n \in FieldNames |-> Pushed(st.fields[n], n, k)],
              particles |-> [n \in DOMAIN st.particles |->
                               IF n \in OffsetNames
                               THEN Pushed(st.particles[n], n, k)
                               ELSE st.particles[n]],
              currents |-> [n \in CurrentNames |-> Pushed(st.currents[n], n, k)]])
    /\ UNCHANGED <<config, pc, caller, locals, calls, init_out, checkpoint, beamfile, load_out>>
    /\ UNCHANGED outsideRun

\* ------------------------------------------------------------- SaveRunState

SaveRunState_init(saving_period, save_beam, save_plasma) ==
    [saving_period |-> saving_period, save_beam |-> save_beam, save_plasma |-> save_plasma]

SaveRunState_pull_config(self, cfg, pu_type) ==
    [saving_period |-> IF self.saving_period < cfg.time_step
                       THEN cfg.time_step ELSE self.saving_period,
     save_beam |-> self.save_beam, save_plasma |-> self.save_plasma,
     time_step_size |-> cfg.time_step, pu_type |-> pu_type]

\* current_time % saving_period <= time_step_size / 2
SaveDue(self, current_time) ==
    2 * (current_time % self.saving_period) <= self.time_step_size

\* GPUArraysView gives the same named arrays, copied to the host
GPUArraysView(arrays) == arrays

\* the charge density written under the name the diagnostics use for it
SavedArraysRho(pl_particles, pl_fields, pl_currents) ==
    [x_offt |-> pl_particles.x_offt, y_offt |-> pl_particles.y_offt,
     px |-> pl_particles.px, py |-> pl_particles.py, pz |-> pl_particles.pz,
     Ex |-> pl_fields.Ex, Ey |-> pl_fields.Ey, Ez |-> pl_fields.Ez,
     Bx |-> pl_fields.Bx, By |-> pl_fields.By, Bz |-> pl_fields.Bz,
     Phi |-> pl_fields.Phi, rho |-> pl_currents.ro,
     jx |-> pl_currents.jx, jy |-> pl_currents.jy, jz |-> pl_currents.jz]

\* the named arrays np.savez_compressed writes
SavedArrays(pl_particles, pl_fields, pl_currents) ==
    [x_offt |-> pl_particles.x_offt, y_offt |-> pl_particles.y_offt,
     px |-> pl_particles.px, py |-> pl_particles.py, pz |-> pl_particles.pz,
     Ex |-> pl_fields.Ex, Ey |-> pl_fields.Ey, Ez |-> pl_fields.Ez,
     Bx |-> pl_fields.Bx, By |-> pl_fields.By, Bz |-> pl_fields.Bz,
     Phi |-> pl_fields.Phi, ro |-> pl_currents.ro,
     jx |-> pl_currents.jx, jy |-> pl_currents.jy, jz |-> pl_currents.jz]

\* after_step_dt of a SaveRunState built with any arguments and given the
\* configuration, called with the driver's current arrays
SaveRunState_after_step_dt ==
    /\ pc = "idle"
    /\ run_state.st = "ok"
    /\ \E saving_period \in 1..MaxTime, save_beam \in BOOLEAN, save_plasma \in BOOLEAN,
          pu_type \in {"cpu", "gpu"}, current_time \in 0..MaxTime :
          LET self == SaveRunState_pull_config(
                          SaveRunState_init(saving_period, save_beam, save_plasma),
                          config, pu_type)
              onhost == self.pu_type = "gpu"
              pl_particles == IF onhost THEN GPUArraysView(run_state.val.particles)
                                        ELSE run_state.val.particles
              pl_fields == IF onhost THEN GPUArraysView(run_state.val.fields)
                                     ELSE run_state.val.fields
              pl_currents == IF onhost THEN GPUArraysView(run_state.val.currents)
                                       ELSE run_state.val.currents
          IN  IF SaveDue(self, current_time)
              THEN /\ beamfile' = (beamfile \/ self.save_beam)
                   /\ checkpoint' = IF self.save_plasma
                                    THEN Ret(SavedArrays(pl_particles, pl_fields, pl_currents))
                                    ELSE checkpoint
              ELSE UNCHANGED <<beamfile, checkpoint>>
    /\ UNCHANGED <<config, pc, caller, locals, calls, init_out, run_state, pushes, load_out>>
    /\ UNCHANGED outsideRun

\* --------------------------------------------------- PlasmaStatePersistence

\* the driver calls load_plasma(config, path), whose first statement calls
\* init_plasma(config)
Driver_load_plasma ==
    /\ pc = "idle"
    /\ checkpoint.st = "ok"
    /\ load_out = NotCalled
    /\ pc' = "assert_centered"
    /\ caller' = "load_plasma"
    /\ UNCHANGED <<config, locals, calls, init_out, run_state, pushes, checkpoint,
                   beamfile, load_out>>
    /\ UNCHANGED outsideRun

\* state[name] for every name asked for, KeyError when one is absent
HasAll(state, names) == \A n \in names : n \in DOMAIN state

\* the names load_plasma looks up in the checkpoint: state['Ex'] ... state['jz']
LoadedNames == FieldNames \cup OffsetNames \cup CurrentNames

\* a loader that returns what it found of the fields
load_plasma_bodyPartial(l, state) ==
    Ret([fields |-> [n \in FieldNames \cap DOMAIN state |-> state[n]],
         const_arrays |-> l.const_arrays])

\* the body of `with np.load(file=path_to_plasmastate) as state:` and the
\* return, evaluated in the order of the code with the names bound in l
load_plasma_body(l, state) ==
    IF ~HasAll(state, FieldNames) THEN Raise("KeyError") ELSE
    LET l1 == l @@ [fields |-> [n \in FieldNames |-> state[n]]]
    IN  IF "particles" \notin DOMAIN l1 THEN Raise("UnboundLocalError") ELSE
        IF ~HasAll(state, OffsetNames) THEN Raise("KeyError") ELSE
        LET l2 == [l1 EXCEPT !.particles =
                       [x_init |-> l1.particles.x_init, y_init |-> l1.particles.y_init,
                        q |-> l1.particles.q, m |-> l1.particles.m,
                        x_offt |-> state.x_offt, y_offt |-> state.y_offt,
                        px |-> state.px, py |-> state.py, pz |-> state.pz]]
        IN  IF ~HasAll(state, CurrentNames) THEN Raise("KeyError") ELSE
            Ret([fields |-> l2.fields, particles |-> l2.particles,
                 currents |-> [n \in CurrentNames |-> state[n]],
                 const_arrays |-> l2.const_arrays])

load_ReadState ==
    /\ pc = "load_state"
    /\ load_out' = load_plasma_body(locals, checkpoint.val)
    /\ pc' = "idle"
    /\ caller' = "none"
    /\ locals' = <<>>
    /\ UNCHANGED <<config, calls, init_out, run_state, pushes, checkpoint, beamfile>>
    /\ UNCHANGED outsideRun

Next ==
    \/ Driver_init_plasma
    \/ init_AssertCentered
    \/ init_AssertVirtual
    \/ init_CheckReflect
    \/ init_MakePlasma
    \/ init_InitialDeposition
    \/ init_Matrices
    \/ init_BundleAndReturn
    \/ PushSolver_step_dt
    \/ SaveRunState_after_step_dt
    \/ Driver_load_plasma
    \/ load_ReadState

Spec == Init /\ [][Next]_vars

\* ------------------------------------------- reloading any file at the path

\* load_plasma reads whatever named-array file path_to_plasmastate points
\* to: here a file SaveRunState wrote in which one array has since been
\* dropped, or stored under another name
CorruptCheckpoint ==
    /\ pc = "idle"
    /\ checkpoint.st = "ok"
    /\ load_out = NotCalled
    /\ DOMAIN checkpoint.val = LoadedNames
    /\ \E n \in LoadedNames, renamed \in BOOLEAN :
          LET kept == [m \in LoadedNames \ {n} |-> checkpoint.val[m]]
          IN  checkpoint' = Ret(IF renamed
                                THEN kept @@ [renamed |-> checkpoint.val[n]]
                                ELSE kept)
    /\ UNCHANGED <<config, pc, caller, locals, calls, init_out, run_state, pushes,
                   beamfile, load_out>>
    /\ UNCHANGED outsideRun

\* the runs whose plasma state is reloaded: the smallest grids, with a
\* padding that init_plasma accepts and one that it rejects
ReloadConfigs ==
    {c \in Configs : /\ c.grid_steps \in {3, 4}
                     /\ c.reflect_padding_steps \in {2, 3}
                     /\ c.plasma_padding_steps = 0
                     /\ c.plasma_coarseness = 1
                     /\ c.plasma_fineness = 1
                     /\ c.solver_trick = 0}

ReloadInit ==
    /\ config \in ReloadConfigs
    /\ NoRun
    /\ NoGrid
    /\ NoMatrix
    /\ NoDiag

ReloadNext == Next \/ CorruptCheckpoint

SpecReload == ReloadInit /\ [][ReloadNext]_vars

\* ----------------------------------------------------------- diagnostics

\* Times and xi are whole numbers of a common unit; the rows a diagnostic
\* collects are carried by the xi at which they were taken, the slices of the
\* field arrays stored with them being opaque.

\* largest 'time-step' of a simulation
MaxTimeStep == 2
\* largest output_period given to a diagnostic
MaxPeriod == 4
\* largest saving_xi_period given to a diagnostic
MaxXiPeriod == 2
\* the push solver passes the layers xi_i = 0..MaxLayers of the window
MaxLayers == 3
\* largest N_steps given to step()
MaxNSteps == 2

\* math.inf, above every time and xi of a run
math_inf == 1000

\* a file of ./diagnostics is named by its kind and by current_time: saving
\* under an existing name replaces the file
SaveFile(fs, kind, current_time, rows) ==
    {g \in fs : ~(g.kind = kind /\ g.time = current_time)}
        \cup {[kind |-> kind, time |-> current_time, rows |-> rows]}

DiagnosticsFXi_init(output_period, saving_xi_period) ==
    [class |-> "DiagnosticsFXi", output_period |-> output_period,
     saving_xi_period |-> saving_xi_period, time_step_size |-> 0, xi_step_size |-> 0,
     data |-> <<>>]

\* if period < step_size: period = step_size
ClampPeriod(period, step_size) == IF period < step_size THEN step_size ELSE period

DiagnosticsFXi_pull_config(self, cfg) ==
    LET pulled == [self EXCEPT
                     !.time_step_size = cfg.time_step,
                     !.xi_step_size = cfg.xi_step,
                     !.output_period = ClampPeriod(self.output_period, cfg.time_step),
                     !.saving_xi_period = ClampPeriod(self.saving_xi_period, cfg.xi_step)]
    IN  IF pulled.output_period % pulled.time_step_size # 0
        THEN [st |-> "raise", err |-> "Exception", self |-> pulled]
        ELSE [st |-> "ok", self |-> pulled]

DiagnosticsFXi_conditions_check(self, current_time, xi_pl_layer) ==
    current_time % self.output_period = 0

DiagnosticsFXi_dump(self, current_time, fs) ==
    IF DiagnosticsFXi_conditions_check(self, current_time, math_inf)
    THEN SaveFile(fs, "f_xi", current_time, self.data)
    ELSE fs

\* xi_plasma_layer % saving_xi_period <= xi_step_size / 2
XiSavingDue(self, xi_plasma_layer) ==
    2 * (xi_plasma_layer % self.saving_xi_period) <= self.xi_step_size

DiagnosticsFXi_after_step_dxi(self, current_time, xi_plasma_layer, fs) ==
    LET collected == IF DiagnosticsFXi_conditions_check(self, current_time, xi_plasma_layer)
                     THEN [self EXCEPT !.data = Append(@, xi_plasma_layer)]
                     ELSE self
    IN  [st |-> "ok", self |-> collected,
         files |-> IF XiSavingDue(collected, xi_plasma_layer)
                   THEN DiagnosticsFXi_dump(collected, current_time, fs)
                   ELSE fs]

DiagnosticsColormaps_init(output_period, saving_xi_period, xi_from, xi_to, output_merging) ==
    [class |-> "DiagnosticsColormaps", output_period |-> output_period,
     saving_xi_period |-> saving_xi_period, xi_from |-> xi_from, xi_to |-> xi_to,
     merging_r |-> output_merging, merging_xi |-> output_merging,
     time_step_size |-> 0, xi_step_size |-> 0, data |-> <<>>]

DiagnosticsColormaps_pull_config(self, cfg) ==
    LET pulled == [self EXCEPT
                     !.time_step_size = cfg.time_step,
                     !.xi_step_size = cfg.xi_step,
                     !.output_period = ClampPeriod(self.output_period, cfg.time_step)]
    IN  IF pulled.output_period % pulled.time_step_size # 0
        THEN [st |-> "raise", err |-> "Exception", self |-> pulled]
        ELSE [st |-> "ok", self |-> pulled]

DiagnosticsColormaps_conditions_check(self, current_time, xi_pl_layer) ==
    /\ current_time % self.output_period = 0
    /\ xi_pl_layer <= self.xi_from
    /\ xi_pl_layer >= self.xi_to

\* dump: np.reshape(..., (size, -1)) of no rows raises ValueError, conv_2d is
\* handed the dictionary and raises AttributeError, otherwise the rows are
\* saved
DiagnosticsColormaps_dump(self, current_time, fs) ==
    IF ~DiagnosticsColormaps_conditions_check(self, current_time, math_inf)
    THEN [st |-> "ok", files |-> fs]
    ELSE IF Len(self.data) = 0
    THEN [st |-> "raise", err |-> "ValueError", files |-> fs]
    ELSE IF self.merging_r > 1 \/ self.merging_xi > 1
    THEN [st |-> "raise", err |-> "AttributeError", files |-> fs]
    ELSE [st |-> "ok", files |-> SaveFile(fs, "colormaps", current_time, self.data)]

\* xi_plasma_layer <= xi_to and xi_plasma_layer + xi_step_size >= xi_to
EndOfSubwindow(self, xi_plasma_layer) ==
    /\ xi_plasma_layer <= self.xi_to
    /\ xi_plasma_layer + self.xi_step_size >= self.xi_to

\* the last part of after_step_dxi: dump and clean at the end of a subwindow
DiagnosticsColormaps_end_of_subwindow(self, current_time, xi_plasma_layer, fs) ==
    IF ~EndOfSubwindow(self, xi_plasma_layer)
    THEN [st |-> "ok", self |-> self, files |-> fs]
    ELSE LET dumped == DiagnosticsColormaps_dump(self, current_time, fs)
         IN  IF dumped.st = "raise"
             THEN [st |-> "raise", err |-> dumped.err, self |-> self, files |-> fs]
             ELSE [st |-> "ok", self |-> [self EXCEPT !.data = <<>>], files |-> dumped.files]

\* the periodic dump followed by the end of the subwindow
DiagnosticsColormaps_savings(self, current_time, xi_plasma_layer, fs) ==
    IF ~XiSavingDue(self, xi_plasma_layer)
    THEN DiagnosticsColormaps_end_of_subwindow(self, current_time, xi_plasma_layer, fs)
    ELSE LET dumped == DiagnosticsColormaps_dump(self, current_time, fs)
         IN  IF dumped.st = "raise"
             THEN [st |-> "raise", err |-> dumped.err, self |-> self, files |-> fs]
             ELSE DiagnosticsColormaps_end_of_subwindow(self, current_time, xi_plasma_layer, dumped.files)

DiagnosticsColormaps_after_step_dxi(self, current_time, xi_plasma_layer, fs) ==
    DiagnosticsColormaps_savings(
        IF DiagnosticsColormaps_conditions_check(self, current_time, xi_plasma_layer)
        THEN [self EXCEPT !.data = Append(@, xi_plasma_layer)]
        ELSE self,
        current_time, xi_plasma_layer, fs)

\* after_step_dt of both classes: for name in self.__data: self.__data[name] = []
Diagnostics_after_step_dt(self) == [self EXCEPT !.data = <<>>]

\* diag.pull_config / diag.after_step_dxi of the object's class
pull_config(diag, cfg) ==
    IF diag.class = "DiagnosticsFXi" THEN DiagnosticsFXi_pull_config(diag, cfg)
    ELSE DiagnosticsColormaps_pull_config(diag, cfg)

after_step_dxi(diag, current_time, xi_plasma_layer, fs) ==
    IF diag.class = "DiagnosticsFXi"
    THEN DiagnosticsFXi_after_step_dxi(diag, current_time, xi_plasma_layer, fs)
    ELSE DiagnosticsColormaps_after_step_dxi(diag, current_time, xi_plasma_layer, fs)

\* Diagnostics3d.__init__: diag.pull_config(config) for each diag of diag_list;
\* only AttributeError is caught, so the Exception of pull_config leaves the
\* constructor
RECURSIVE Diagnostics3d_init(_, _, _)
Diagnostics3d_init(diag_list, cfg, i) ==
    IF i > Len(diag_list) THEN [st |-> "ok", diag_list |-> diag_list]
    ELSE LET r == pull_config(diag_list[i], cfg)
             pulled == [diag_list EXCEPT ![i] = r.self]
         IN  IF r.st = "raise"
             THEN [st |-> "raise", err |-> r.err, diag_list |-> pulled]
             ELSE Diagnostics3d_init(pulled, cfg, i + 1)

\* Diagnostics3d.after_step_dxi: diag.after_step_dxi(*parameters) for each
\* diag; an AttributeError is printed and the loop goes on, any other
\* exception leaves the method
RECURSIVE Diagnostics3d_after_step_dxi(_, _, _, _, _)
Diagnostics3d_after_step_dxi(diag_list, current_time, xi_plasma_layer, fs, i) ==
    IF i > Len(diag_list) THEN [st |-> "ok", diag_list |-> diag_list, files |-> fs]
    ELSE LET r == after_step_dxi(diag_list[i], current_time, xi_plasma_layer, fs)
             stepped == [diag_list EXCEPT ![i] = r.self]
         IN  IF r.st = "raise" /\ r.err # "AttributeError"
             THEN [st |-> "raise", err |-> r.err, diag_list |-> stepped, files |-> r.files]
             ELSE Diagnostics3d_after_step_dxi(stepped, current_time, xi_plasma_layer, r.files, i + 1)

\* Diagnostics3d.after_step_dt
Diagnostics3d_after_step_dt(diag_list) ==
    [i \in 1..Len(diag_list) |-> Diagnostics_after_step_dt(diag_list[i])]

XiFroms == {math_inf, 0, -1}

XiTos == {-math_inf, -1, -2}

\* the user builds one DiagnosticsFXi and one DiagnosticsColormaps and a
\* configuration; no simulation yet
DiagInit ==
    /\ dconfig \in [time_step : 1..MaxTimeStep, xi_step : {1}]
    /\ diags \in {<<DiagnosticsFXi_init(p1, s1), DiagnosticsColormaps_init(p2, s2, xf, xt, mg)>> :
                    p1 \in 1..MaxPeriod, s1 \in 1..MaxXiPeriod, p2 \in 1..MaxPeriod,
                    s2 \in 1..MaxXiPeriod, xf \in XiFroms, xt \in XiTos, mg \in {1, 2}}
    /\ sim = [phase |-> "new"]
    /\ files = {}
    /\ heap = <<>>
    /\ observed = <<>>
    /\ config = <<>>
    /\ NoRun
    /\ NoGrid
    /\ NoMatrix

\* Cartesian3dSimulation(config, diagnostics=diag_list): current_time = 0 and
\* __pull_config, which builds Diagnostics3d
Simulation_init ==
    /\ sim.phase = "new"
    /\ LET d == Diagnostics3d_init(diags, dconfig, 1)
       IN  /\ diags' = d.diag_list
           /\ sim' = IF d.st = "raise"
                     THEN [phase |-> "failed", err |-> d.err]
                     ELSE [phase |-> "ready", current_time |-> 0, calls |-> 0]
    /\ UNCHANGED <<dconfig, files>>
    /\ UNCHANGED outsideDiag

\* step(N_steps) up to its loop: __pull_config again, then the time limit
Simulation_step ==
    /\ sim.phase = "ready"
    /\ sim.calls = 0
    /\ \E N_steps \in 1..MaxNSteps :
          LET d == Diagnostics3d_init(diags, dconfig, 1)
          IN  /\ diags' = d.diag_list
              /\ sim' = IF d.st = "raise"
                        THEN [phase |-> "failed", err |-> d.err]
                        ELSE [phase |-> "loop", current_time |-> sim.current_time,
                              calls |-> sim.calls + 1, N_steps |-> N_steps, t_i |-> 0]
    /\ UNCHANGED <<dconfig, files>>
    /\ UNCHANGED outsideDiag

\* a driver that leaves the time where it is
AdvanceTimeKept(current_time, time_step_size) == current_time

\* self.current_time = self.current_time + self.__time_step_size
AdvanceTime(current_time, time_step_size) == current_time + time_step_size

\* for t_i in range(N_steps): the time is advanced and step_dt entered; after
\* the last time step, step() returns
Simulation_time_step ==
    /\ sim.phase = "loop"
    /\ sim' = IF sim.t_i < sim.N_steps
              THEN [sim EXCEPT !.phase = "layers",
                               !.current_time = AdvanceTime(@, dconfig.time_step)]
                       @@ [xi_i |-> 0]
              ELSE [phase |-> "ready", current_time |-> sim.current_time, calls |-> sim.calls]
    /\ UNCHANGED <<dconfig, diags, files>>
    /\ UNCHANGED outsideDiag

\* push_solver.step_dt, one xi layer: diagnostics.after_step_dxi is given
\* current_time and xi_plasma_layer = -xi_i * xi_step_size; an exception
\* leaves step_dt and step()
PushSolver_xi_layer ==
    /\ sim.phase = "layers"
    /\ sim.xi_i <= MaxLayers
    /\ LET r == Diagnostics3d_after_step_dxi(diags, sim.current_time,
                                             -(sim.xi_i * dconfig.xi_step), files, 1)
       IN  /\ diags' = r.diag_list
           /\ files' = r.files
           /\ sim' = IF r.st = "raise"
                     THEN [phase |-> "failed", err |-> r.err]
                     ELSE [sim EXCEPT !.xi_i = @ + 1]
    /\ UNCHANGED dconfig
    /\ UNCHANGED outsideDiag

\* step_dt has returned: self.__diagnostics.after_step_dt(...), then the next
\* iteration of the loop
Simulation_after_step_dt ==
    /\ sim.phase = "layers"
    /\ sim.xi_i > MaxLayers
    /\ diags' = Diagnostics3d_after_step_dt(diags)
    /\ sim' = [phase |-> "loop", current_time |-> sim.current_time, calls |-> sim.calls,
               N_steps |-> sim.N_steps, t_i |-> sim.t_i + 1]
    /\ UNCHANGED <<dconfig, files>>
    /\ UNCHANGED outsideDiag

DiagNext ==
    \/ Simulation_init
    \/ Simulation_step
    \/ Simulation_time_step
    \/ PushSolver_xi_layer
    \/ Simulation_after_step_dt

SpecDiag == DiagInit /\ [][DiagNext]_vars

\* --------------------------------------- Cartesian3dSimulation.step, in full

\* largest time-step of a run of step(), in ticks
MaxDt == 3
\* largest saving_period given to SaveRunState, in ticks
MaxSavingPeriod == 4
\* step() calls made on one simulation
MaxStepCalls == 2
\* entries of diag_list
MaxDiagEntries == 2

\* self.beam_source = None, self.beam_drain = None: no object is named 0
None == 0

\* an array, or a set of arrays held by one object: written holds the time
\* steps (counted over the whole run) that changed it in place
Array(kind) == [kind |-> kind, written |-> {}]

\* fields, particles, currents, const_arrays = init_plasma(config): every one
\* allocated by the call
init_plasma_objects(h) ==
    [st |-> "ok", err |-> "",
     heap |-> h \o <<Array("fields"), Array("particles"), Array("currents"),
                     Array("const_arrays")>>,
     val |-> [fields |-> Len(h) + 1, particles |-> Len(h) + 2,
              currents |-> Len(h) + 3, const_arrays |-> Len(h) + 4]]

\* load_plasma of the other approaches: the arrays of the file in new objects
load_plasma_single(h) == init_plasma_objects(h)

\* self.__load_plasma as __pull_config chose it; load_plasma of the dual
\* approach calls init_plasma(config) for the constant arrays, then reads
\* particles.x_init from an unbound name
load_plasma(cfg, h) ==
    IF cfg.pu_type = "gpu" /\ cfg.dual_plasma_approach
    THEN [st |-> "raise", err |-> "UnboundLocalError",
          heap |-> init_plasma_objects(h).heap, val |-> <<>>]
    ELSE load_plasma_single(h)

\* generate_beam(config, beam_parameters, beam_module): new beam particles
generate_beam(h) == Append(h, Array("BeamParticles"))

\* BeamSource(config, beam): a new source that reads the given particles
BeamSource(h, beam) == Append(h, [kind |-> "BeamSource", beam |-> beam])

\* BeamDrain(): a new drain with its own empty beam_buffer
BeamDrain(h) ==
    h \o <<Array("BeamParticles"), [kind |-> "BeamDrain", beam_buffer |-> Len(h) + 1]>>

\* Path('./run_states').mkdir, beam_buffer.save and np.savez_compressed of
\* SaveRunState.after_step_dt; the files hold the names of the objects saved
SaveRunState_run_states(self, current_time, pl, beam_drain, h, fs) ==
    IF ~SaveDue(self, current_time)
    THEN [st |-> "ok", err |-> "", files |-> fs]
    ELSE LET dir == SaveFile(fs, "run_states", 0, <<>>)
         IN  IF self.save_beam /\ beam_drain = None
             THEN [st |-> "raise", err |-> "AttributeError", files |-> dir]
             ELSE LET beam == IF self.save_beam
                              THEN SaveFile(dir, "run_states/beamfile", current_time,
                                            <<h[beam_drain].beam_buffer>>)
                              ELSE dir
                  IN  [st |-> "ok", err |-> "",
                       files |-> IF self.save_plasma
                                 THEN SaveFile(beam, "run_states/plasmastate", current_time,
                                               <<pl.particles, pl.fields, pl.currents>>)
                                 ELSE beam]

\* diag.pull_config(config): an object without the method raises
\* AttributeError
Entry_pull_config(diag, cfg) ==
    IF diag.class = "SaveRunState"
    THEN [st |-> "ok", err |-> "",
          diag |-> [diag EXCEPT !.self = SaveRunState_pull_config(@, cfg, cfg.pu_type)]]
    ELSE [st |-> "raise", err |-> "AttributeError", diag |-> diag]

\* diag.after_step_dxi(*parameters) or diag.after_step_dt(*parameters) of one
\* entry: SaveRunState.after_step_dxi is `pass`
Entry_call(method, diag, p, h, fs) ==
    IF diag.class = "SaveRunState"
    THEN IF method = "after_step_dt"
         THEN SaveRunState_run_states(diag.self, p.current_time, p.pl, p.beam_drain, h, fs)
         ELSE [st |-> "ok", err |-> "", files |-> fs]
    ELSE [st |-> "raise", err |-> "AttributeError", files |-> fs]

\* a handler that catches nothing
SwallowedNothing(err) == FALSE

\* except AttributeError:
Swallowed(err) == err = "AttributeError"

\* Diagnostics3d.after_step_dxi and Diagnostics3d.after_step_dt: the loop over
\* diag_list from entry i on, with the calls it makes
RECURSIVE Diagnostics3d_each(_, _, _, _, _, _)
Diagnostics3d_each(method, diag_list, p, h, fs, i) ==
    IF i > Len(diag_list)
    THEN [st |-> "ok", err |-> "", files |-> fs, events |-> <<>>]
    ELSE LET r == Entry_call(method, diag_list[i], p, h, fs)
             ev == [op |-> "diag." \o method, time |-> p.current_time, entry |-> i,
                    outcome |-> IF r.st = "ok" THEN "ok" ELSE r.err]
         IN  IF r.st = "raise" /\ ~Swallowed(r.err)
             THEN [st |-> "raise", err |-> r.err, files |-> r.files, events |-> <<ev>>]
             ELSE LET rest == Diagnostics3d_each(method, diag_list, p, h, r.files, i + 1)
                  IN  [rest EXCEPT !.events = <<ev>> \o @]

\* the call of the driver or of the push solver, followed by those of the loop
Diagnostics3d_call(method, diag_list, p, h, fs) ==
    LET r == Diagnostics3d_each(method, diag_list, p, h, fs, 1)
    IN  [r EXCEPT !.events = <<[op |-> method, time |-> p.current_time]>> \o @]

\* Cartesian3dSimulation.__pull_config, which ends with Diagnostics3d(config,
\* diag_list): pull_config of every entry, an AttributeError being printed
Cartesian3dSimulation_pull_config(cfg, diag_list) ==
    IF cfg.geometry # "3d"
    THEN [st |-> "raise", err |-> "Exception", diag_list |-> diag_list]
    ELSE [st |-> "ok", err |-> "",
          diag_list |-> [i \in 1..Len(diag_list) |->
                            Entry_pull_config(diag_list[i], cfg).diag]]

\* the attributes of a new Cartesian3dSimulation; N_steps, t_i and pl are the
\* locals of step()
NewSimulation ==
    [phase |-> "ready", err |-> "", current_time |-> 0, beam_source |-> None,
     beam_drain |-> None, external_plasmastate |-> FALSE, time_limit |-> 0,
     loaded |-> <<>>, N_steps |-> 0, t_i |-> 0, calls |-> 0, pl |-> <<>>]

Failed(s, err) == [s EXCEPT !.phase = "failed", !.err = err]

\* the lists given as diagnostics=: SaveRunState objects and objects of the
\* user's that have none of the methods, at most one SaveRunState in a list
DiagLists ==
    LET entries == {[class |-> "SaveRunState", self |-> SaveRunState_init(p, sb, sp)] :
                        p \in 1..MaxSavingPeriod, sb \in BOOLEAN, sp \in BOOLEAN}
                   \cup {[class |-> "object", self |-> <<>>]}
    IN  {l \in UNION {[1..n -> entries] : n \in 0..MaxDiagEntries} :
            Cardinality({i \in DOMAIN l : l[i].class = "SaveRunState"}) <= 1}

\* the user has a configuration and a list of diagnostics; no simulation yet
StepInit ==
    /\ dconfig \in [geometry : {"3d", "2d"}, time_step : 1..MaxDt, time_limit : {MaxDt},
                    rigid_beam : {"no", "y"}, continuation : {"n", "y"},
                    pu_type : {"cpu", "gpu"}, dual_plasma_approach : BOOLEAN]
    /\ diags \in DiagLists
    /\ sim = [phase |-> "new"]
    /\ files = {}
    /\ heap = <<>>
    /\ observed = <<>>
    /\ config = <<>>
    /\ NoRun
    /\ NoGrid
    /\ NoMatrix

\* Cartesian3dSimulation(config, diagnostics=diag_list)
Cartesian3dSimulation_init ==
    /\ sim.phase = "new"
    /\ LET r == Cartesian3dSimulation_pull_config(dconfig, diags)
       IN  /\ diags' = r.diag_list
           /\ sim' = IF r.st = "raise"
                     THEN Failed(NewSimulation, r.err)
                     ELSE [NewSimulation EXCEPT !.time_limit = dconfig.time_limit]
    /\ UNCHANGED <<dconfig, files, heap, observed>>
    /\ UNCHANGED outsideStep

\* sim.external_plasmastate = True, between two calls of step()
User_set_external_plasmastate ==
    /\ sim.phase = "ready"
    /\ ~sim.external_plasmastate
    /\ sim' = [sim EXCEPT !.external_plasmastate = TRUE]
    /\ UNCHANGED <<dconfig, diags, files, heap, observed>>
    /\ UNCHANGED outsideStep

\* step(): from `if self.__cont_mode` to the loop, with the plasma state
\* loaded and N_steps known
step_beam(s, cfg, h, events) ==
    IF cfg.continuation \notin {"n", "no"}
    THEN [sim |-> Failed(s, "Exception"), heap |-> h, events |-> events]
    ELSE IF s.beam_source # None
    THEN [sim |-> [s EXCEPT !.phase = "loop"], heap |-> h, events |-> events]
    ELSE IF cfg.rigid_beam \notin {"n", "no"}
    THEN [sim |-> Failed(s, "Exception"), heap |-> h, events |-> events]
    ELSE LET particles == generate_beam(h)
             source == BeamSource(particles, Len(particles))
             drain == BeamDrain(source)
         IN  [sim |-> [s EXCEPT !.phase = "loop", !.beam_source = Len(source),
                                !.beam_drain = Len(drain)],
              heap |-> drain,
              events |-> Append(events, [op |-> "generate_beam", time |-> s.current_time,
                                         beam_source |-> Len(source),
                                         beam_drain |-> Len(drain)])]

\* step(): N_steps and the time limit, then the beam
step_limit(s, cfg, h, events, n_arg) ==
    step_beam([s EXCEPT !.N_steps = IF n_arg = <<>>
                                    THEN cfg.time_limit \div cfg.time_step
                                    ELSE n_arg[1],
                        !.time_limit = IF n_arg = <<>>
                                       THEN cfg.time_limit
                                       ELSE n_arg[1] * cfg.time_step + s.current_time,
                        !.t_i = 0, !.calls = @ + 1],
              cfg, h, events)

\* step(): the plasma state is loaded when external_plasmastate is set
step_load(s, cfg, h, events, n_arg) ==
    IF ~s.external_plasmastate
    THEN step_limit(s, cfg, h, events, n_arg)
    ELSE LET r == load_plasma(cfg, h)
             loaded == Append(events, [op |-> "load_plasma", time |-> s.current_time,
                                       outcome |-> IF r.st = "ok" THEN "ok" ELSE r.err,
                                       pl |-> r.val])
         IN  IF r.st = "raise"
             THEN [sim |-> Failed(s, r.err), heap |-> r.heap, events |-> loaded]
             ELSE step_limit([s EXCEPT !.loaded = r.val], cfg, r.heap, loaded, n_arg)

\* step(N_steps) up to its loop; N_steps is <<>> for None
Cartesian3dSimulation_step ==
    /\ sim.phase = "ready"
    /\ sim.calls < MaxStepCalls
    /\ \E n_arg \in {<<>>} \cup {<<n>> : n \in 0..MaxNSteps} :
          LET pulled == Cartesian3dSimulation_pull_config(dconfig, diags)
              called == <<[op |-> "step", time |-> sim.current_time,
                           beam_source |-> sim.beam_source,
                           external |-> sim.external_plasmastate]>>
              r == IF pulled.st = "raise"
                   THEN [sim |-> Failed(sim, pulled.err), heap |-> heap, events |-> called]
                   ELSE step_load(sim, dconfig, heap, called, n_arg)
          IN  /\ diags' = pulled.diag_list
              /\ sim' = r.sim
              /\ heap' = r.heap
              /\ observed' = observed \o r.events
    /\ UNCHANGED <<dconfig, files>>
    /\ UNCHANGED outsideStep

\* a driver that keeps the plasma state of the time step before
init_plasmastateKept(s, h) ==
    IF s.external_plasmastate \/ s.pl # <<>>
    THEN [heap |-> h, val |-> IF s.external_plasmastate THEN s.loaded ELSE s.pl,
          events |-> <<>>]
    ELSE LET r == init_plasma_objects(h)
         IN  [heap |-> r.heap, val |-> r.val,
              events |-> <<[op |-> "init_plasma", time |-> s.current_time, pl |-> r.val]>>]

\* __init_plasmastate
init_plasmastate(s, h) ==
    IF s.external_plasmastate
    THEN [heap |-> h, val |-> s.loaded, events |-> <<>>]
    ELSE LET r == init_plasma_objects(h)
         IN  [heap |-> r.heap, val |-> r.val,
              events |-> <<[op |-> "init_plasma", time |-> s.current_time, pl |-> r.val]>>]

\* push_solver.step_dt(pl_fields, pl_particles, pl_currents, pl_const_arrays,
\* beam_source, beam_drain, current_time, diagnostics), the k-th of the run:
\* it reads the source, calls diagnostics.after_step_dxi for the layer xi = 0
\* and changes fields, particles, currents and the buffer of the drain in place
PushAndSolver3d_step_dt(pl, s, diag_list, h, fs, k) ==
    LET mutable == {pl.fields, pl.particles, pl.currents}
        buffer == h[s.beam_drain].beam_buffer
        call == [op |-> "step_dt", time |-> s.current_time, k |-> k, pl |-> pl,
                 external |-> s.external_plasmastate,
                 beam_source |-> s.beam_source, beam_drain |-> s.beam_drain,
                 seen |-> UNION {h[i].written : i \in mutable},
                 drain_seen |-> h[buffer].written]
        d == Diagnostics3d_call("after_step_dxi", diag_list,
                                [current_time |-> s.current_time, pl |-> pl,
                                 beam_drain |-> s.beam_drain], h, fs)
    IN  [st |-> d.st, err |-> d.err, files |-> d.files,
         heap |-> [i \in 1..Len(h) |-> IF i \in mutable \cup {buffer}
                                        THEN [h[i] EXCEPT !.written = @ \cup {k}]
                                        ELSE h[i]],
         events |-> <<call>> \o d.events]

\* one pass of `for t_i in range(N_steps)` up to the return of step_dt, which
\* is the next one after the time steps made so far in the run
step_time_step ==
    /\ sim.phase = "loop"
    /\ sim.t_i < sim.N_steps
    /\ LET advanced == [sim EXCEPT !.current_time = AdvanceTime(@, dconfig.time_step)]
           st == init_plasmastate(advanced, heap)
           r == PushAndSolver3d_step_dt(st.val, advanced, diags, st.heap, files,
                                        Len(SelectSeq(observed, LAMBDA e : e.op = "step_dt")) + 1)
       IN  /\ heap' = r.heap
           /\ files' = r.files
           /\ observed' = observed \o st.events \o r.events
           /\ sim' = IF r.st = "raise"
                     THEN Failed([advanced EXCEPT !.pl = st.val], r.err)
                     ELSE [advanced EXCEPT !.phase = "pushed", !.pl = st.val]
    /\ UNCHANGED <<dconfig, diags>>
    /\ UNCHANGED outsideStep

\* self.__diagnostics.after_step_dt(current_time, pl_particles, pl_fields,
\* pl_currents, beam_drain)
step_after_step_dt ==
    /\ sim.phase = "pushed"
    /\ LET r == Diagnostics3d_call("after_step_dt", diags,
                                   [current_time |-> sim.current_time, pl |-> sim.pl,
                                    beam_drain |-> sim.beam_drain], heap, files)
       IN  /\ files' = r.files
           /\ observed' = observed \o r.events
           /\ sim' = IF r.st = "raise"
                     THEN Failed(sim, r.err)
                     ELSE [sim EXCEPT !.phase = "diagnosed"]
    /\ UNCHANGED <<dconfig, diags, heap>>
    /\ UNCHANGED outsideStep

\* a hand-off that keeps the drain in place
HandOffSameDrain(s, h) ==
    LET source == BeamSource(h, h[s.beam_drain].beam_buffer)
    IN  [sim |-> [s EXCEPT !.beam_source = Len(source)], heap |-> source]

\* self.beam_source = BeamSource(config, self.beam_drain.beam_buffer);
\* self.beam_drain = BeamDrain()
HandOff(s, h) ==
    LET source == BeamSource(h, h[s.beam_drain].beam_buffer)
        drain == BeamDrain(source)
    IN  [sim |-> [s EXCEPT !.beam_source = Len(source), !.beam_drain = Len(drain)],
         heap |-> drain]

\* the end of one pass of the loop
step_hand_off ==
    /\ sim.phase = "diagnosed"
    /\ LET r == HandOff(sim, heap)
       IN  /\ heap' = r.heap
           /\ sim' = [r.sim EXCEPT !.phase = "loop", !.t_i = @ + 1]
           /\ observed' = Append(observed, [op |-> "hand_off", time |-> sim.current_time,
                                            beam |-> heap[sim.beam_drain].beam_buffer,
                                            beam_source |-> r.sim.beam_source,
                                            beam_drain |-> r.sim.beam_drain])
    /\ UNCHANGED <<dconfig, diags, files>>
    /\ UNCHANGED outsideStep

\* after the loop: self.beam_source.beam.save('beamfile'), and step() returns
step_return ==
    /\ sim.phase = "loop"
    /\ sim.t_i = sim.N_steps
    /\ files' = SaveFile(files, "beamfile", 0, <<heap[sim.beam_source].beam>>)
    /\ observed' = Append(observed, [op |-> "return", time |-> sim.current_time,
                                     N_steps |-> sim.N_steps])
    /\ sim' = [sim EXCEPT !.phase = "ready", !.pl = <<>>]
    /\ UNCHANGED <<dconfig, diags, heap>>
    /\ UNCHANGED outsideStep

StepNext ==
    \/ Cartesian3dSimulation_init
    \/ User_set_external_plasmastate
    \/ Cartesian3dSimulation_step
    \/ step_time_step
    \/ step_after_step_dt
    \/ step_hand_off
    \/ step_return

SpecStep == StepInit /\ [][StepNext]_vars

\* ------------------------------------ DiagnosticsFXi, the series of each name

\* longest f_xi given to the constructor, in pieces
MaxFXiPieces == 4
\* largest output_period given to the constructor
MaxFXiPeriod == 3
\* xi layers collected before the lists are cleaned
MaxSeries == 2

\* the pieces joined to one string
RECURSIVE Concat(_)
Concat(ps) == IF ps = <<>> THEN "" ELSE Head(ps) \o Concat(Tail(ps))

\* names_str.replace(' ', '')
replace_blanks(names_str) == SelectSeq(names_str, LAMBDA c : c # " ")

\* str.split(','): the strings between the commas, empty ones included
RECURSIVE split(_)
split(s) ==
    IF \A i \in 1..Len(s) : s[i] # ","
    THEN <<Concat(s)>>
    ELSE LET i == CHOOSE k \in 1..Len(s) : s[k] = "," /\ \A j \in 1..(k - 1) : s[j] # ","
         IN  <<Concat(SubSeq(s, 1, i - 1))>> \o split(SubSeq(s, i + 1, Len(s)))

\* names[names != '']: a name given twice stays twice
from_str_into_list(names_str) ==
    SelectSeq(split(replace_blanks(names_str)), LAMBDA n : n # "")

allowed_f_xi ==
    {"Ex", "Ey", "Ez", "Bx", "By", "Bz", "rho", "rho_beam", "Ez2", "Bz2", "rho_beam2", "Phi"}

\* DiagnosticsFXi(output_period, saving_xi_period, f_xi, f_xi_type): data is
\* the dictionary {name: [] for name in f_xi_names} with the key 'xi' added
FXi_init(output_period, saving_xi_period, f_xi, f_xi_type) ==
    LET names == from_str_into_list(f_xi)
    IN  IF \E i \in 1..Len(names) : names[i] \notin allowed_f_xi
        THEN [st |-> "raise", err |-> "Exception"]
        ELSE IF f_xi_type \notin {"numbers", "pictures", "both"}
        THEN [st |-> "raise", err |-> "Exception"]
        ELSE [st |-> "ok", err |-> "",
              self |-> [class |-> "DiagnosticsFXi", f_xi_names |-> names,
                        f_xi_type |-> f_xi_type, output_period |-> output_period,
                        saving_xi_period |-> saving_xi_period,
                        time_step_size |-> 0, xi_step_size |-> 0,
                        data |-> [n \in {names[i] : i \in 1..Len(names)} \cup {"xi"} |-> <<>>]]]

\* for name in self.__f_xi_names: self.__data[name].append(val), from the
\* i-th name on; each allowed name is matched by one of the five tests
RECURSIVE FXi_append_each(_, _, _, _)
FXi_append_each(data, names, val, i) ==
    IF i > Len(names) THEN data
    ELSE FXi_append_each([data EXCEPT ![names[i]] = Append(@, val)], names, val, i + 1)

\* dump, 'pictures': plt.plot(data['xi'], data[name]) and savefig for each
\* name from the i-th on; plot raises ValueError for lists of unequal length
RECURSIVE FXi_pictures(_, _, _, _)
FXi_pictures(self, current_time, fs, i) ==
    IF i > Len(self.f_xi_names) THEN [st |-> "ok", err |-> "", files |-> fs]
    ELSE IF Len(self.data[self.f_xi_names[i]]) # Len(self.data["xi"])
    THEN [st |-> "raise", err |-> "ValueError", files |-> fs]
    ELSE FXi_pictures(self, current_time,
                      SaveFile(fs, self.f_xi_names[i] \o "_f_xi", current_time,
                               [n \in {"xi", self.f_xi_names[i]} |-> self.data[n]]),
                      i + 1)

FXi_dump(self, current_time, fs) ==
    IF ~DiagnosticsFXi_conditions_check(self, current_time, math_inf)
    THEN [st |-> "ok", err |-> "", files |-> fs]
    ELSE LET numbers == IF self.f_xi_type \in {"numbers", "both"}
                        THEN SaveFile(fs, "f_xi", current_time, self.data)
                        ELSE fs
         IN  IF self.f_xi_type \in {"pictures", "both"}
             THEN FXi_pictures(self, current_time, numbers, 1)
             ELSE [st |-> "ok", err |-> "", files |-> numbers]

\* after_step_dxi: the value read at the probe line is written as the layer
\* it was read at
FXi_after_step_dxi(self, current_time, xi_plasma_layer, fs) ==
    LET collected ==
            IF DiagnosticsFXi_conditions_check(self, current_time, xi_plasma_layer)
            THEN [self EXCEPT !.data = FXi_append_each(
                                          [@ EXCEPT !["xi"] = Append(@, xi_plasma_layer)],
                                          self.f_xi_names, xi_plasma_layer, 1)]
            ELSE self
        dumped == IF XiSavingDue(collected, xi_plasma_layer)
                  THEN FXi_dump(collected, current_time, fs)
                  ELSE [st |-> "ok", err |-> "", files |-> fs]
    IN  [st |-> dumped.st, err |-> dumped.err, self |-> collected, files |-> dumped.files]

\* after_step_dt: for name in self.__data: self.__data[name] = []
FXi_after_step_dt(self) == [self EXCEPT !.data = [n \in DOMAIN @ |-> <<>>]]

\* the user is about to build a DiagnosticsFXi from a string f_xi, written as
\* a sequence of pieces: names, commas and blanks
FXiInit ==
    /\ dconfig \in [time_step : 1..MaxTimeStep, xi_step : {1}]
    /\ sim \in [phase : {"new"},
                f_xi : UNION {[1..n -> {"Ez", "rho", "ni", ",", " "}] : n \in 0..MaxFXiPieces},
                f_xi_type : {"numbers", "pictures", "movie"},
                output_period : 1..MaxFXiPeriod]
    /\ diags = <<>>
    /\ files = {}
    /\ heap = <<>>
    /\ observed = <<>>
    /\ config = <<>>
    /\ NoRun
    /\ NoGrid
    /\ NoMatrix

\* DiagnosticsFXi(output_period=..., f_xi=..., f_xi_type=...)
DiagnosticsFXi_new ==
    /\ sim.phase = "new"
    /\ LET r == FXi_init(sim.output_period, 1, sim.f_xi, sim.f_xi_type)
       IN  IF r.st = "raise"
           THEN /\ sim' = [sim EXCEPT !.phase = "rejected"]
                /\ UNCHANGED diags
           ELSE /\ sim' = [sim EXCEPT !.phase = "built"]
                /\ diags' = <<r.self>>
    /\ UNCHANGED <<dconfig, files>>
    /\ UNCHANGED outsideDiag

\* Diagnostics3d(config, diag_list=[diag]): diag.pull_config(config)
DiagnosticsFXi_configured ==
    /\ sim.phase = "built"
    /\ LET r == DiagnosticsFXi_pull_config(diags[1], dconfig)
       IN  /\ diags' = <<r.self>>
           /\ sim' = [sim EXCEPT !.phase = IF r.st = "raise" THEN "failed" ELSE "ready"]
    /\ UNCHANGED <<dconfig, files>>
    /\ UNCHANGED outsideDiag

\* diag.after_step_dxi(current_time, xi_plasma_layer, ...)
DiagnosticsFXi_called_dxi ==
    /\ sim.phase = "ready"
    /\ Len(diags[1].data["xi"]) < MaxSeries
    /\ \E current_time \in 1..MaxTimeStep, xi_i \in 0..1 :
          LET r == FXi_after_step_dxi(diags[1], current_time, -(xi_i * dconfig.xi_step), files)
          IN  /\ diags' = <<r.self>>
              /\ files' = r.files
              /\ sim' = [sim EXCEPT !.phase = IF r.st = "raise" THEN "failed" ELSE "ready"]
    /\ UNCHANGED dconfig
    /\ UNCHANGED outsideDiag

\* diag.after_step_dt(...)
DiagnosticsFXi_called_dt ==
    /\ sim.phase = "ready"
    /\ diags' = <<FXi_after_step_dt(diags[1])>>
    /\ UNCHANGED <<dconfig, sim, files>>
    /\ UNCHANGED outsideDiag

FXiNext ==
    \/ DiagnosticsFXi_new
    \/ DiagnosticsFXi_configured
    \/ DiagnosticsFXi_called_dxi
    \/ DiagnosticsFXi_called_dt

SpecFXi == FXiInit /\ [][FXiNext]_vars

\* ------------------------------------------------------ properties of a run

InitReturned == init_out.st = "ok"

\* one of the three conditions init_plasma rejects
RejectedConfig ==
    \/ config.grid_steps % 2 = 0
    \/ config.reflect_padding_steps <= config.plasma_coarseness + 1
    \/ config.reflect_padding_steps <= 2

Squared(c) == c * c

\* every entry of the uniform array arr equals v
EveryEntry(arr, v) == arr.shape[1] = 0 \/ arr.shape[2] = 0 \/ arr.fill = v

\* C1: in the bundle init_plasma returns, every entry of particles.m is
\* ELECTRON_MASS * plasma_coarseness^2 and every entry of particles.q is
\* ELECTRON_CHARGE * plasma_coarseness^2.
C1_MassAndChargeNames ==
    InitReturned =>
        /\ EveryEntry(init_out.val.particles.m,
                      ELECTRON_MASS * Squared(config.plasma_coarseness))
        /\ EveryEntry(init_out.val.particles.q,
                      ELECTRON_CHARGE * Squared(config.plasma_coarseness))

\* a configuration within the documented input ranges that init_plasma accepts
ValidConfig ==
    /\ config.grid_steps >= 3
    /\ config.plasma_coarseness >= 1
    /\ config.plasma_fineness >= 1
    /\ ~RejectedConfig

\* C2: for a valid configuration, load_plasma called with the configuration
\* of the run and the arrays SaveRunState persisted returns a bundle whose
\* const_arrays are those of init_plasma and whose mutable arrays are the
\* persisted ones.
C2_RoundTrip ==
    (ValidConfig /\ load_out # NotCalled) =>
        /\ load_out.st = "ok"
        /\ load_out.val.const_arrays = init_out.val.const_arrays
        /\ \A n \in OffsetNames : load_out.val.particles[n] = checkpoint.val[n]
        /\ \A n \in FieldNames : load_out.val.fields[n] = checkpoint.val[n]
        /\ \A n \in CurrentNames : load_out.val.currents[n] = checkpoint.val[n]

\* C3: with grid_steps even, reflect_padding_steps <= plasma_coarseness + 1 or
\* reflect_padding_steps <= 2, init_plasma never gets past its checks, ends in
\* an error and hands no bundle to the driver or to load_plasma.
C3_RejectedConfigRaises ==
    RejectedConfig =>
        /\ pc \in {"idle", "assert_centered", "assert_virtual", "check_reflect"}
        /\ init_out.st # "ok"
        /\ run_state = NotCalled
        /\ load_out.st # "ok"
        /\ (pc = "idle" /\ init_out # NotCalled) => init_out.st = "raise"

\* the explicit raise: a padding of at most 2 that passed both assertions
C3_Witness ==
    /\ RejectedConfig
    /\ config.grid_steps % 2 = 1
    /\ config.reflect_padding_steps > config.plasma_coarseness + 1
    /\ init_out = Raise("Exception")

\* C9: in a returned bundle the three matrices, the field arrays and the
\* current arrays have the sizes given by the full grid_steps, while the
\* particle arrays, the fine grid and the interpolation table are those of the
\* window grid_steps - 2 * plasma_padding_steps; every builder was called with
\* the corresponding size.
C9_FullGridAndWindowSizes ==
    InitReturned =>
        LET N == config.grid_steps
            W == config.grid_steps - 2 * config.plasma_padding_steps
            b == init_out.val
            coarse == make_coarse_plasma_grid(W, config.grid_step_size,
                                              config.plasma_coarseness).val
            fine == make_fine_plasma_grid(W, config.grid_step_size,
                                          config.plasma_fineness).val
        IN  /\ b.const_arrays.dirichlet_matrix.shape = <<Max(N - 2, 0), Max(N - 2, 0)>>
            /\ b.const_arrays.field_mixed_matrix.shape = <<Max(N - 2, 0), N>>
            /\ b.const_arrays.neumann_matrix.shape = <<N, N>>
            /\ \A n \in FieldNames : b.fields[n].shape = <<N, N>>
            /\ \A n \in CurrentNames : b.currents[n].shape = <<N, N>>
            /\ \A n \in DOMAIN b.particles :
                   b.particles[n].shape = <<Len(coarse), Len(coarse)>>
            /\ b.particles.x_init.grid = coarse
            /\ b.particles.y_init.grid = coarse
            /\ b.const_arrays.fine_grid = fine
            /\ \A n \in {"influence_prev", "influence_next", "indices_prev", "indices_next"} :
                   Len(b.const_arrays[n]) = Len(fine)
            /\ \A i \in 1..Len(calls) :
                   /\ calls[i].fn = "make_plasma" => calls[i].size = W
                   /\ calls[i].fn \in {"dirichlet_matrix", "mixed_matrix",
                                       "neumann_matrix", "zeros"} => calls[i].size = N

\* a bundle built with a padded window that holds particles: the window and the
\* full grid differ in size and in their coarse grids
C9_Witness ==
    /\ InitReturned
    /\ config.plasma_padding_steps >= 1
    /\ init_out.val.particles.x_init.shape[1] >= 1
    /\ init_out.val.particles.x_init.shape[1] < init_out.val.fields.Ex.shape[1]
    /\ Len(init_out.val.const_arrays.fine_grid) >= 1

\* C10: for a rejected configuration no builder is ever invoked and no array
\* allocated: the rejection precedes make_plasma, initial_deposition, the
\* three matrix builders and the zero arrays.
C10_RejectedBeforeAnyArray == RejectedConfig => calls = <<>>

\* the second assertion alone rejects, and nothing has been built
C10_Witness ==
    /\ config.grid_steps % 2 = 1
    /\ config.reflect_padding_steps > 2
    /\ config.reflect_padding_steps <= config.plasma_coarseness + 1
    /\ init_out = Raise("AssertionError")
    /\ calls = <<>>

ParticleConfigNames == {"x_init", "y_init", "q", "m"}

\* C11: for a valid configuration, load_plasma returns a ParticleState whose
\* x_init, y_init, q and m are those init_plasma derives from the
\* configuration, while x_offt, y_offt, px, py, pz are the persisted ones.
C11_ReloadedParticles ==
    (ValidConfig /\ load_out # NotCalled) =>
        /\ load_out.st = "ok"
        /\ \A n \in ParticleConfigNames :
               load_out.val.particles[n] = init_out.val.particles[n]
        /\ \A n \in OffsetNames : load_out.val.particles[n] = checkpoint.val[n]

\* C12: with grid_steps odd and at least 3, plasma_coarseness >= 1 and
\* reflect_padding_steps = plasma_coarseness + 2, a finished init_plasma call
\* has returned the full bundle, whatever plasma_padding_steps,
\* plasma_fineness and plasma_coarseness are.
C12_MinimalReflectPaddingSucceeds ==
    (/\ config.grid_steps >= 3
     /\ config.grid_steps % 2 = 1
     /\ config.plasma_coarseness >= 1
     /\ config.reflect_padding_steps = config.plasma_coarseness + 2
     /\ pc = "idle"
     /\ init_out # NotCalled) =>
        /\ init_out.st = "ok"
        /\ DOMAIN init_out.val = {"fields", "particles", "currents", "const_arrays"}

\* one of the sixteen arrays is missing from the checkpoint
CheckpointLacksArray ==
    checkpoint.st = "ok" /\ ~(LoadedNames \subseteq DOMAIN checkpoint.val)

\* C13: load_plasma called on a checkpoint in which one of the sixteen named
\* arrays is missing or renamed ends in an error and returns nothing.
C13_CorruptCheckpointRaises ==
    (CheckpointLacksArray /\ load_out # NotCalled) => load_out.st = "raise"

\* a checkpoint without its Ez array, for a configuration init_plasma
\* accepts: the lookup state['Ez'] fails
C13_Witness ==
    /\ CheckpointLacksArray
    /\ "Ez" \notin DOMAIN checkpoint.val
    /\ init_out.st = "ok"
    /\ load_out = Raise("KeyError")

SixteenNames ==
    {"x_offt", "y_offt", "px", "py", "pz", "Ex", "Ey", "Ez", "Bx", "By", "Bz",
     "Phi", "ro", "jx", "jy", "jz"}

\* C14: the names of the arrays SaveRunState.after_step_dt writes into a
\* plasma-state checkpoint are exactly the names load_plasma looks up, and
\* both are the sixteen names x_offt, y_offt, px, py, pz, Ex, Ey, Ez, Bx, By,
\* Bz, Phi, ro, jx, jy, jz.
C14_SavedNamesAreLoadedNames ==
    checkpoint.st = "ok" =>
        /\ DOMAIN checkpoint.val = LoadedNames
        /\ DOMAIN checkpoint.val = SixteenNames

\* a checkpoint written after a time step
C14_Witness ==
    /\ checkpoint.st = "ok"
    /\ pushes >= 1
    /\ checkpoint.val.ro = run_state.val.currents.ro
    /\ Cardinality(DOMAIN checkpoint.val) = 16

\* fine point k lies left of or at the first coarse particle
AtOrLeftOfFirst(k) == ~RLess(PlasmaCoarseGrid[1], VirtParams.fine_grid[k])

\* fine point k lies at or right of the last coarse particle
AtOrRightOfLast(k) == ~RLess(VirtParams.fine_grid[k], PlasmaCoarseGrid[PlasmaNc])

\* fine point k lies strictly right of the last coarse particle
RightOfLast(k) == RLess(PlasmaCoarseGrid[PlasmaNc], VirtParams.fine_grid[k])

\* C18 as stated: with Nc >= 2, indices_next[k] = 0 exactly for the fine
\* points left of or at the first coarse particle, and indices_prev[k] = Nc-1,
\* with the forced weights influence_next = 0, influence_prev = 1, exactly for
\* the fine points at or right of the last coarse particle.
C18_AsStated ==
    (PlasmaBuilt /\ PlasmaNc >= 2) =>
        \A k \in 1..NFine :
            /\ VirtParams.indices_next[k] = 0 <=> AtOrLeftOfFirst(k)
            /\ VirtParams.indices_prev[k] = PlasmaNc - 1 <=> AtOrRightOfLast(k)
            /\ RightClamped(k) <=> AtOrRightOfLast(k)

\* C18 amended: with Nc >= 2, indices_next[k] = 0 exactly for the fine points
\* left of or at the first coarse particle, and indices_prev[k] = Nc-1, with
\* the forced weights influence_next = 0, influence_prev = 1, exactly for the
\* fine points strictly right of the last coarse particle; a fine point at
\* the last coarse particle has indices_prev = Nc-2, indices_next = Nc-1 and
\* the weights influence_prev = 0, influence_next = 1.
C18_ClampedExactlyOutside ==
    (PlasmaBuilt /\ PlasmaNc >= 2) =>
        \A k \in 1..NFine :
            /\ VirtParams.indices_next[k] = 0 <=> AtOrLeftOfFirst(k)
            /\ VirtParams.indices_prev[k] = PlasmaNc - 1 <=> RightOfLast(k)
            /\ RightClamped(k) <=> RightOfLast(k)
            /\ VirtParams.fine_grid[k] = PlasmaCoarseGrid[PlasmaNc] =>
                   /\ VirtParams.indices_prev[k] = PlasmaNc - 2
                   /\ VirtParams.indices_next[k] = PlasmaNc - 1
                   /\ LeftClamped(k)

\* a table with fine points strictly outside the coarse grid on both sides
\* and fine points on its first and on its last particle
C18_Witness ==
    /\ PlasmaBuilt
    /\ PlasmaNc >= 3
    /\ \E k \in 1..NFine : RLess(VirtParams.fine_grid[k], PlasmaCoarseGrid[1])
    /\ \E k \in 1..NFine : VirtParams.fine_grid[k] = PlasmaCoarseGrid[1]
    /\ \E k \in 1..NFine : /\ VirtParams.fine_grid[k] = PlasmaCoarseGrid[PlasmaNc]
                           /\ VirtParams.indices_prev[k] = PlasmaNc - 2
    /\ \E k \in 1..NFine : RightOfLast(k) /\ VirtParams.indices_prev[k] = PlasmaNc - 1

\* the driver is inside the first time step of its first step() call
InFirstTimeStep == sim.phase = "layers" /\ sim.calls = 1 /\ sim.t_i = 0

\* C19: for a simulation that starts at current_time = 0 and a DiagnosticsFXi
\* whose output_period pull_config accepted, conditions_check is true of the
\* current_time the driver passes during the first time step of step().
C19_FirstTimeStepDiagnosed ==
    InFirstTimeStep =>
        DiagnosticsFXi_conditions_check(diags[1], sim.current_time,
                                        -(sim.xi_i * dconfig.xi_step))

IsPrefix(a, b) == Len(a) <= Len(b) /\ \A i \in 1..Len(a) : a[i] = b[i]

\* C20: when a call of DiagnosticsColormaps.after_step_dxi at the end of the
\* subwindow, with current_time a multiple of output_period, cleans rows that
\* were collected, the file it has saved for current_time holds those rows
\* (stated for the default output_merging_r = output_merging_xi = 1).
C20_SavedBeforeCleaned ==
    [][(/\ sim.phase = "layers"
        /\ sim'.phase = "layers"
        /\ diags[2].merging_r = 1
        /\ diags[2].merging_xi = 1
        /\ EndOfSubwindow(diags[2], -(sim.xi_i * dconfig.xi_step))
        /\ sim.current_time % diags[2].output_period = 0
        /\ diags[2].data # <<>>
        /\ diags'[2].data = <<>>)
       => \E f \in files' : /\ f.kind = "colormaps"
                            /\ f.time = sim.current_time
                            /\ IsPrefix(diags[2].data, f.rows)]_vars

\* 0 <= w <= 1
IsWeight(w) == ~RLess(w, RZero) /\ ~RLess(ROne, w)

\* C27: in every interpolation table make_plasma builds with a non-empty
\* coarse grid, 0 <= influence_prev[k] <= 1 and 0 <= influence_next[k] <= 1
\* for every fine index k.
C27_WeightsInUnitInterval ==
    (PlasmaBuilt /\ PlasmaNc >= 1) =>
        \A k \in 1..NFine :
            /\ IsWeight(VirtParams.influence_prev[k])
            /\ IsWeight(VirtParams.influence_next[k])

\* a table with a fine point more than a coarse step left of the first coarse
\* particle, whose raw weights 1 + d and -d lie outside 0..1 and are forced,
\* and a fine point strictly inside a coarse cell
C27_Witness ==
    /\ PlasmaBuilt
    /\ PlasmaNc >= 2
    /\ \E k \in 1..NFine :
          /\ RLess(VirtParams.fine_grid[k], PlasmaCoarseGrid[1])
          /\ LeftClamped(k)
    /\ \E k \in 1..NFine :
          /\ RLess(RZero, VirtParams.influence_prev[k])
          /\ RLess(VirtParams.influence_prev[k], ROne)
          /\ RLess(RZero, VirtParams.influence_next[k])
          /\ RLess(VirtParams.influence_next[k], ROne)

\* ------------------------------------------------- properties of step()

\* current_time differs from a multiple of period by less than dt / 2
NearMultiple(current_time, period, dt) ==
    2 * Min(current_time % period, period - (current_time % period)) < dt

\* the plasma state of time current_time is among the files
PlasmaStateSaved(current_time) ==
    \E f \in files : f.kind = "run_states/plasmastate" /\ f.time = current_time

\* the calls of after_step_dt made so far on a SaveRunState that saves the
\* plasma, as positions in observed
SaveRunStateCalls ==
    {i \in 1..Len(observed) :
        /\ observed[i].op = "diag.after_step_dt"
        /\ diags[observed[i].entry].class = "SaveRunState"
        /\ diags[observed[i].entry].self.save_plasma}

\* C21: SaveRunState.after_step_dt saves the run state exactly when
\* current_time differs from a multiple of the saving period by less than
\* time_step / 2, slightly above the multiple or slightly below it, and does
\* not save otherwise.
C21_SavedNearEveryMultiple ==
    \A i \in SaveRunStateCalls :
        PlasmaStateSaved(observed[i].time) <=>
            NearMultiple(observed[i].time, diags[observed[i].entry].self.saving_period,
                         diags[observed[i].entry].self.time_step_size)

\* positions in observed of the calls of push_solver.step_dt
StepDtCalls == {i \in 1..Len(observed) : observed[i].op = "step_dt"}

\* position of the call of step() during which the call at position i was made
CallStart(i) ==
    CHOOSE c \in 1..i :
        /\ observed[c].op = "step"
        /\ \A j \in (c + 1)..i : observed[j].op # "step"

\* the objects handed to the push solver by the call at position i
Handed(i) ==
    {observed[i].pl.fields, observed[i].pl.particles, observed[i].pl.currents,
     observed[i].pl.const_arrays}

\* the calls of load_plasma made during the call of step() at position c
LoadsOf(c) ==
    {j \in c..Len(observed) : observed[j].op = "load_plasma" /\ CallStart(j) = c}

\* C22: without external_plasmastate every time step hands the push solver a
\* plasma state from its own init_plasma call, whose arrays no earlier time
\* step has changed or been handed; with external_plasmastate the checkpoint
\* is loaded once per call of step(), before the loop, and every time step of
\* the call is handed the same loaded objects, so it sees what the time steps
\* before it changed.
C22_PlasmaStatePerTimeStep ==
    /\ \A i \in StepDtCalls :
          IF ~observed[i].external
          THEN /\ observed[i - 1].op = "init_plasma"
               /\ observed[i - 1].pl = observed[i].pl
               /\ observed[i].seen = {}
               /\ \A j \in StepDtCalls : j < i => Handed(j) \cap Handed(i) = {}
          ELSE /\ observed[CallStart(i) + 1].op = "load_plasma"
               /\ observed[CallStart(i) + 1].pl = observed[i].pl
               /\ observed[i - 1].op # "init_plasma"
               /\ \A j \in StepDtCalls :
                     (CallStart(i) < j /\ j < i) =>
                        /\ observed[j].pl = observed[i].pl
                        /\ observed[j].k \in observed[i].seen
    /\ \A c \in 1..Len(observed) :
          observed[c].op = "step" =>
             /\ Cardinality(LoadsOf(c)) = IF observed[c].external THEN 1 ELSE 0
             /\ LoadsOf(c) \subseteq {c + 1}

\* a call of step() without external_plasmastate and a later one with it, two
\* time steps in each
C22_Witness ==
    /\ \E i \in StepDtCalls, j \in StepDtCalls :
          /\ i < j
          /\ CallStart(i) = CallStart(j)
          /\ ~observed[j].external
    /\ \E i \in StepDtCalls, j \in StepDtCalls :
          /\ i < j
          /\ CallStart(i) = CallStart(j)
          /\ observed[j].external
          /\ observed[i].k \in observed[j].seen

\* the calls the driver itself makes around a time step
DriverCalls ==
    {i \in 1..Len(observed) :
        observed[i].op \in {"step", "step_dt", "after_step_dt", "hand_off", "return"}}

\* the driver's call before the one at position i
Before(i) == CHOOSE j \in DriverCalls : j < i /\ \A m \in DriverCalls : m < i => m <= j

\* calls named op made since the call of step() at position c, up to position i
CountSince(c, i, op) == Cardinality({j \in (c + 1)..i : observed[j].op = op})

\* C23: in step(N) started at current_time = t0, the k-th call of step_dt is
\* given t0 + k * time_step, after_step_dt follows each step_dt once and is
\* given the same time, and at the return current_time = t0 + N * time_step.
C23_TimeOfEachTimeStep ==
    /\ \A i \in 1..Len(observed) :
          /\ observed[i].op = "step_dt" =>
                /\ observed[i].time = observed[CallStart(i)].time
                       + CountSince(CallStart(i), i, "step_dt") * dconfig.time_step
                /\ observed[Before(i)].op \in {"step", "hand_off"}
          /\ observed[i].op = "after_step_dt" =>
                /\ observed[Before(i)].op = "step_dt"
                /\ observed[Before(i)].time = observed[i].time
          /\ observed[i].op = "return" =>
                /\ observed[i].time = observed[CallStart(i)].time
                       + observed[i].N_steps * dconfig.time_step
                /\ CountSince(CallStart(i), i, "step_dt") = observed[i].N_steps
                /\ CountSince(CallStart(i), i, "after_step_dt") = observed[i].N_steps
    /\ (sim.phase \in {"pushed", "diagnosed", "ready"} /\ observed # <<>>) =>
          sim.current_time = observed[Len(observed)].time

\* a second call of step(), started at t0 > 0, has returned after two time
\* steps
C23_Witness ==
    \E i \in 1..Len(observed) :
        /\ observed[i].op = "return"
        /\ observed[i].N_steps = 2
        /\ observed[CallStart(i)].time > 0
        /\ sim.phase = "ready"
        /\ i = Len(observed)

\* C24: a beam is generated only in a call of step() that found beam_source
\* None; every time step is given a drain whose buffer no time step has
\* written, and, after the first, a source that reads the buffer of the drain
\* of the time step before; the hand-off follows after_step_dt of the same
\* time step.
C24_BeamHandOff ==
    \A i \in 1..Len(observed) :
        /\ observed[i].op = "generate_beam" =>
              /\ observed[CallStart(i)].beam_source = None
              /\ CountSince(CallStart(i), i, "step_dt") = 0
        /\ observed[i].op = "step_dt" =>
              /\ observed[i].drain_seen = {}
              /\ \A j \in StepDtCalls :
                    j < i => observed[j].beam_drain # observed[i].beam_drain
              /\ \A j \in StepDtCalls :
                    (j < i /\ observed[j].k + 1 = observed[i].k) =>
                        heap[observed[i].beam_source].beam
                            = heap[observed[j].beam_drain].beam_buffer
        /\ observed[i].op = "hand_off" =>
              /\ observed[Before(i)].op = "after_step_dt"
              /\ observed[Before(i)].time = observed[i].time
              /\ heap[observed[i].beam_source].beam
                     = heap[observed[Before(Before(i))].beam_drain].beam_buffer
              /\ observed[i].beam_drain # observed[Before(Before(i))].beam_drain

\* two calls of step() and one generated beam: the second call started with
\* the source the first one left, and has made a time step
C24_Witness ==
    /\ Cardinality({i \in 1..Len(observed) : observed[i].op = "generate_beam"}) = 1
    /\ \E i \in StepDtCalls :
          /\ observed[CallStart(i)].beam_source # None
          /\ observed[i].k >= 3
          /\ heap[heap[observed[i].beam_drain].beam_buffer].written = {observed[i].k}

\* positions in observed of the calls of Diagnostics3d.after_step_dxi and
\* Diagnostics3d.after_step_dt
DiagnosticsCalls ==
    {i \in 1..Len(observed) : observed[i].op \in {"after_step_dxi", "after_step_dt"}}

\* C26: Diagnostics3d.after_step_dxi and Diagnostics3d.after_step_dt call the
\* method of every entry of diag_list once and in list order; an entry that
\* raises AttributeError does not keep the later entries from being called,
\* and the error does not reach the driver.
C26_EveryEntryCalledInOrder ==
    /\ \A i \in DiagnosticsCalls :
          /\ i + Len(diags) <= Len(observed)
          /\ \A n \in 1..Len(diags) :
                /\ observed[i + n].op = "diag." \o observed[i].op
                /\ observed[i + n].entry = n
                /\ observed[i + n].time = observed[i].time
          /\ i + Len(diags) < Len(observed) =>
                observed[i + Len(diags) + 1].op
                    \notin {"diag.after_step_dxi", "diag.after_step_dt"}
    /\ sim.phase = "failed" => sim.err # "AttributeError"

\* step() has returned with a list whose first entry lacks the methods and
\* whose second, a SaveRunState, was called after it and saved the plasma
C26_Witness ==
    /\ sim.phase = "ready"
    /\ Len(diags) = 2
    /\ \E i \in DiagnosticsCalls :
          /\ observed[i].op = "after_step_dt"
          /\ observed[i + 1].outcome = "AttributeError"
          /\ observed[i + 2].outcome = "ok"
          /\ PlasmaStateSaved(observed[i].time)
    /\ \E i \in DiagnosticsCalls :
          /\ observed[i].op = "after_step_dxi"
          /\ observed[i + 1].outcome = "AttributeError"
          /\ observed[i + 2].outcome = "ok"

\* a DiagnosticsFXi the constructor and pull_config have accepted
FXiAccepted ==
    /\ sim.phase \in {"ready", "failed"}
    /\ Len(diags) = 1
    /\ diags[1].class = "DiagnosticsFXi"
    /\ "f_xi_names" \in DOMAIN diags[1]

\* C25: for every f_xi the constructor accepts and after any calls of
\* after_step_dxi and after_step_dt, the series of every configured name is
\* as long as the series of xi.
C25_SeriesAligned ==
    FXiAccepted =>
        \A i \in 1..Len(diags[1].f_xi_names) :
            Len(diags[1].data[diags[1].f_xi_names[i]]) = Len(diags[1].data["xi"])

====
